---------------------------- MODULE Spec2Model ----------------------------
(***************************************************************************)
(* A model of ghostoxide's GhostPage (src/src/ghost.rs): stealth script    *)
(* evaluation through an isolated world, and human-like mouse, keyboard    *)
(* and wheel input dispatched over the remote-debugging channel.           *)
(*                                                                         *)
(* Numbers.  Coordinates are f64 in the source.  Here a coordinate is an   *)
(* integer number of pixels; a product with a fraction is computed in      *)
(* integers and divided last (\div).  At the two ends of a Bezier curve    *)
(* (t = 0 and t = 1) the source's floating-point sum is exact for finite   *)
(* inputs, and so is the integer form; between them the integer form       *)
(* rounds, which no property below depends on.                             *)
(*                                                                         *)
(* Randomness.  Every draw of rand::thread_rng() is a nondeterministic     *)
(* choice (\E) over a finite sample of the range the source draws from.    *)
(***************************************************************************)
EXTENDS Integers, Sequences, FiniteSets, TLC

(***************************************************************************)
(* Bounds of the model                                                     *)
(***************************************************************************)
\* A uniform draw from -r..r is u*r/UDen for u in -UDen..UDen-1.
UDen == 2
\* BezierPath::generate is also called with every step count 1..MaxBezierSteps.
MaxBezierSteps == 3
\* Calls the single caller of a sequential session makes.
MaxCalls == 2
\* Requests the channel may fail in one run.
MaxFaults == 1
\* Navigations of the page in one run.
MaxNav == 1
\* calls each of the concurrent callers makes
ConcCalls == 1
\* setters called on one builder
MaxSetters == 2
\* scripts generated from one profile
MaxScripts == 2
\* browser configurations made from one profile
MaxConfigs == 1

(***************************************************************************)
(* Program constants                                                       *)
(***************************************************************************)
\* move_mouse_human: BezierPath::generate(start, target_with_jitter, 25)
MoveSteps == 25
\* type_text: self.type_text_with_delay(text, 50, 150)
TypeMinDelay == 50
TypeMaxDelay == 150
\* scroll_human: (delta_y.abs() / 50).max(3).min(15)
ScrollPerStep == 50
ScrollMinSteps == 3
ScrollMaxSteps == 15
\* scroll_human: .clamp(-200, 200)
ScrollClamp == 200
\* scroll_human: .delta_x(0.0)
WheelDeltaX == 0
\* the range of i32, the type of delta_y
I32Max == 2147483647
I32Min == -I32Max - 1

(***************************************************************************)
(* Points and arithmetic                                                   *)
(***************************************************************************)
Pt(px, py) == [x |-> px, y |-> py]

Origin == Pt(0, 0)

Abs(n) == IF n < 0 THEN -n ELSE n

\* dist = ((end.x - start.x).powi(2) + (end.y - start.y).powi(2)).sqrt(),
\* rounded down; 0 exactly when the two points are equal
Dist(start, end) ==
    LET dx == Abs(end.x - start.x)
        dy == Abs(end.y - start.y)
        n == dx * dx + dy * dy
    IN  CHOOSE r \in 0..(dx + dy) : r * r <= n /\ (r + 1) * (r + 1) > n

(***************************************************************************)
(* BezierPath::generate                                                    *)
(***************************************************************************)
\* One outcome of generate's random draws: four draws from
\* -offset_range..offset_range (as numerators u over UDen) and gen_bool(0.20).
USet == (-UDen)..(UDen - 1)

BezierRnd == [u1x : USet, u1y : USet, u2x : USet, u2y : USet, over : BOOLEAN]

\* rng.gen_range(-offset_range..offset_range), offset_range = dist * 0.3
Offset(u, dist) == (u * 3 * dist) \div (10 * UDen)

\* rand's gen_range panics on an empty range ("cannot sample empty range"):
\* -offset_range..offset_range is empty exactly when dist * 0.3 = 0.
GeneratePanics(start, end, steps) == Dist(start, end) = 0

\* first control point
ControlP1(start, end, rnd) ==
    LET dist == Dist(start, end)
    IN  Pt(start.x + (end.x - start.x) \div 4 + Offset(rnd.u1x, dist),
           start.y + (end.y - start.y) \div 4 + Offset(rnd.u1y, dist))

\* second control point, with the 20% overshoot applied when drawn
ControlP2(start, end, rnd) ==
    LET dist == Dist(start, end)
        bx == start.x + (3 * (end.x - start.x)) \div 4 + Offset(rnd.u2x, dist)
        by == start.y + (3 * (end.y - start.y)) \div 4 + Offset(rnd.u2y, dist)
        amt == dist \div 20
    IN  IF rnd.over
        THEN Pt(bx + (IF end.x > start.x THEN amt ELSE -amt),
                by + (IF end.y > start.y THEN amt ELSE -amt))
        ELSE Pt(bx, by)

\* One coordinate of the cubic Bezier formula at t = i / steps, over the
\* common denominator steps^3.
Cubic(a, c1, c2, b, i, steps) ==
    LET r == steps - i
    IN  (r * r * r * a + 3 * r * r * i * c1 + 3 * r * i * i * c2 + i * i * i * b)
            \div (steps * steps * steps)

\* the loop  for i in 0..=steps
BezierIndices(steps) == 0..steps

\* The path generate returns when it does not panic: one point per index.
Generate(start, end, steps, rnd) ==
    LET p1 == ControlP1(start, end, rnd)
        p2 == ControlP2(start, end, rnd)
        idx == BezierIndices(steps)
        n == Cardinality(idx)
    IN  [k \in 1..n |->
            Pt(Cubic(start.x, p1.x, p2.x, end.x, k - 1, steps),
               Cubic(start.y, p1.y, p2.y, end.y, k - 1, steps))]

(***************************************************************************)
(* The session: one GhostPage (and its clones, which share mouse_pos) used *)
(* by the tasks of Tasks.  A task is a caller: it invokes one public       *)
(* operation at a time and suspends at every .await.                       *)
(***************************************************************************)
Tasks == {1, 2}

VARIABLES
    mouse_pos,  \* GhostPage.mouse_pos: Arc<Mutex<Point>>
    pc,         \* per task: where its current call is suspended ("idle": no call)
    op,         \* per task: the public operation it called last
    loc,        \* per task: the local variables of its call
    resp,       \* per task: the response to the request it awaits
    sent,       \* per task: the requests its current call has issued, in order
    result,     \* per task: what its last call returned
    budget,     \* per task: calls it may still start
    faults,     \* failures the channel may still produce
    issued,     \* every protocol method issued on the session so far
    lastMove,   \* the pointer-move request issued last on the session
    doc,        \* the page: number of navigations so far
    worlds,     \* the page: worlds[id] is the document isolated world id was created in
    bz,         \* a direct call of BezierPath::generate: its inputs and result
    pf,         \* a profile in the making: the builder, the profile built, what was generated from it
    lock        \* the Mutex of mouse_pos: the task whose guard is alive, 0 when none is

vars == <<mouse_pos, pc, op, loc, resp, sent, result, budget, faults, issued,
          lastMove, doc, worlds, bz, pf, lock>>

(***************************************************************************)
(* Requests, responses and results                                         *)
(***************************************************************************)
\* A request issued through the inner Page, and what became of it: st is
\* "inflight", "ok" or "err"; ret is the frame or context id the answer
\* carried and at the document the page was in when it answered.
Req(m, ty, text, key, p, d, n) ==
    [m |-> m, ty |-> ty, text |-> text, key |-> key, x |-> p.x, y |-> p.y,
     dx |-> 0, dy |-> d, n |-> n, st |-> "inflight", ret |-> 0, at |-> 0]

RuntimeEnable == "Runtime.enable"
CreateIsolatedWorld == "Page.createIsolatedWorld"
RuntimeEvaluate == "Runtime.evaluate"
DispatchMouseEvent == "Input.dispatchMouseEvent"
DispatchKeyEvent == "Input.dispatchKeyEvent"
MainFrame == "mainframe"

\* A response: ok with a number (a frame or context id) and a value, or an
\* error with its message.
OkResp(n, val) == [ok |-> TRUE, n |-> n, val |-> val, msg |-> ""]
ErrResp(msg) == [ok |-> FALSE, n |-> 0, val |-> "", msg |-> msg]
NoResp == OkResp(0, "")

\* What a call returns: Ok(value), Err(message), or it panics.
OkResult(val) == [kind |-> "Ok", val |-> val, msg |-> ""]
ErrResult(msg) == [kind |-> "Err", val |-> "", msg |-> msg]
PanicResult == [kind |-> "Panic", val |-> "", msg |-> ""]
NoResult == [kind |-> "none", val |-> "", msg |-> ""]

\* .map_err(|e| anyhow!("{}", e)): the error is formatted; its message is all
\* that is kept.
Anyhow(r) == ErrResult(r.msg)

NoLoc == [path |-> <<>>, idx |-> 0, start |-> Origin, pos |-> Origin, target |-> Origin,
          text |-> <<>>, ci |-> 0, typo |-> "", stage |-> "", key |-> "",
          lo |-> 0, hi |-> 0, steps |-> 0, remaining |-> 0, si |-> 0, step |-> 0,
          frame |-> 0, ctx |-> 0, delta |-> 0]

(***************************************************************************)
(* Inputs of the session's calls                                           *)
(***************************************************************************)
\* targets of move_mouse_human and click_human
Targets == {Pt(40, 30), Pt(0, 0)}

\* The draws of one move_mouse_human inside a session: (jitter_x, jitter_y),
\* each from -2.0..2.0, and the draws of BezierPath::generate.
MoveDraws ==
    {[j |-> Pt(0, 0),
      rnd |-> [u1x |-> 0, u1y |-> 0, u2x |-> 0, u2y |-> 0, over |-> FALSE]],
     [j |-> Pt(1, -2),
      rnd |-> [u1x |-> 1, u1y |-> -2, u2x |-> -1, u2y |-> 1, over |-> TRUE]]}

\* the points of a path whose dispatch the channel may fail (1-based): the
\* first, one in the middle, the last
FaultyPoints == {1, 14, 26}

\* characters: two letters (one of them among typo_chars) and a digit
Letters == {"a", "b"}
Chars == Letters \cup {"1"}

\* texts typed
Texts == {<<>>, <<"a">>, <<"1", "b">>, <<"b", "a", "1">>}

\* (min_delay_ms, max_delay_ms) of type_text_with_delay
DelayRanges == {[lo |-> 50, hi |-> 150], [lo |-> 100, hi |-> 100]}

\* keys pressed: three the match of press_key names, and one it does not
Keys == {"Enter", "Tab", "Backspace", "F5"}

\* delta_y of scroll_human
ScrollDeltas == {0, -120, I32Max, I32Min}

\* the jitter of one scroll step, drawn from -10..10
ScrollJitters == {-10, 0, 9}

\* the indices drawn into typo_chars (1-based)
TypoDraws == {1, 6}

(***************************************************************************)
(* Suspension points.  A call that awaits a request is at a "_wait"        *)
(* location until the page has handled the request, then at the matching   *)
(* "_resp" location until the task runs again.                             *)
(***************************************************************************)
WaitPcs == {"ev_frame_wait", "ev_world_wait", "ev_eval_wait", "mv_wait", "ck_wait",
            "td_down_wait", "td_up_wait", "ts_down_wait", "ts_up_wait",
            "pk_down_wait", "pk_up_wait", "sc_wait"}

RespPc(w) ==
    CASE w = "ev_frame_wait" -> "ev_frame_resp"
      [] w = "ev_world_wait" -> "ev_world_resp"
      [] w = "ev_eval_wait" -> "ev_eval_resp"
      [] w = "mv_wait" -> "mv_resp"
      [] w = "ck_wait" -> "ck_resp"
      [] w = "td_down_wait" -> "td_down_resp"
      [] w = "td_up_wait" -> "td_up_resp"
      [] w = "ts_down_wait" -> "ts_down_resp"
      [] w = "ts_up_wait" -> "ts_up_resp"
      [] w = "pk_down_wait" -> "pk_down_resp"
      [] w = "pk_up_wait" -> "pk_up_resp"
      [] w = "sc_wait" -> "sc_resp"

EvalPcs == {"ev_frame_wait", "ev_frame_resp", "ev_world_wait", "ev_world_resp",
            "ev_eval_wait", "ev_eval_resp"}

MovePcs == {"mv_wait", "mv_resp", "mv_sleep"}

\* self.inner.<request>(..).await : the request is issued and the call suspends
Send(t, log, req, w) ==
    /\ sent' = [sent EXCEPT ![t] = Append(log, req)]
    /\ issued' = issued \cup {req.m}
    /\ pc' = [pc EXCEPT ![t] = w]
    /\ lastMove' = IF req.ty = "mouseMoved"
                   THEN [by |-> t, p |-> Pt(req.x, req.y)]
                   ELSE lastMove

\* the call returns res to its caller
Return(t, res) ==
    /\ pc' = [pc EXCEPT ![t] = "idle"]
    /\ result' = [result EXCEPT ![t] = res]

\* a task calls the public operation o
Begin(t, o) ==
    /\ pc[t] = "idle"
    /\ budget[t] > 0
    /\ op' = [op EXCEPT ![t] = o]

\* the call counts against the caller's budget
Spend(t) == budget' = [budget EXCEPT ![t] = @ - 1]

\* the call panics: it unwinds, and the task that made it makes no other
Panic(t) ==
    /\ pc' = [pc EXCEPT ![t] = "idle"]
    /\ result' = [result EXCEPT ![t] = PanicResult]
    /\ budget' = [budget EXCEPT ![t] = 0]

(***************************************************************************)
(* The inner Page and the browser behind it                                *)
(***************************************************************************)
\* the messages of the errors of the channel and of the browser
ChannelError == "channel error"
StaleContext == "Cannot find context with specified id"

\* How the page answers the request a task awaits.
Answers(t) ==
    LET req == sent[t][Len(sent[t])]
        fail == IF faults > 0 THEN {ErrResp(ChannelError)} ELSE {}
        mayFail == ~(req.ty = "mouseMoved" /\ loc[t].idx \notin FaultyPoints)
    IN  CASE req.m = MainFrame ->
                {OkResp(1, ""), OkResp(0, "")} \cup fail
          [] req.m = CreateIsolatedWorld ->
                {OkResp(Len(worlds) + 1, "")} \cup fail
          [] req.m = RuntimeEvaluate ->
                IF req.n \notin DOMAIN worlds \/ worlds[req.n] # doc
                THEN {ErrResp(StaleContext)}
                ELSE {OkResp(0, "none"), OkResp(0, "some")} \cup fail
          [] OTHER -> {OkResp(0, "")} \cup (IF mayFail THEN fail ELSE {})

\* The page handles the request of task t and answers it.
Transport(t) ==
    /\ pc[t] \in WaitPcs
    /\ \E r \in Answers(t) :
        /\ resp' = [resp EXCEPT ![t] = r]
        /\ sent' = [sent EXCEPT ![t][Len(sent[t])] =
                        [@ EXCEPT !.st = IF r.ok THEN "ok" ELSE "err",
                                  !.ret = r.n, !.at = doc]]
        /\ faults' = IF r.msg = ChannelError THEN faults - 1 ELSE faults
        /\ worlds' = IF r.ok /\ sent[t][Len(sent[t])].m = CreateIsolatedWorld
                     THEN Append(worlds, doc)
                     ELSE worlds
    /\ pc' = [pc EXCEPT ![t] = RespPc(pc[t])]
    /\ UNCHANGED <<mouse_pos, op, loc, result, budget, issued, lastMove, doc, bz, pf, lock>>

\* The page navigates: every isolated world of the old document is gone.
Navigate ==
    /\ doc < MaxNav
    /\ \E t \in Tasks : pc[t] \in EvalPcs
    /\ doc' = doc + 1
    /\ UNCHANGED <<mouse_pos, pc, op, loc, resp, sent, result, budget, faults,
                   issued, lastMove, worlds, bz, pf, lock>>

(***************************************************************************)
(* GhostPage::evaluate_stealth                                             *)
(***************************************************************************)
\* anyhow!("No main frame available")
NoMainFrame == "No main frame available"

\* the requests evaluate_stealth builds
MainFrameReq == Req(MainFrame, "", "", "", Origin, 0, 0)
\* mutant: the context is obtained by enabling the Runtime domain
EnableRuntimeReq(frame) == Req(RuntimeEnable, "", "", "", Origin, 0, frame)
IsolatedWorldReq(frame) == Req(CreateIsolatedWorld, "", "", "", Origin, 0, frame)
EvaluateReq(ctx) == Req(RuntimeEvaluate, "", "", "", Origin, 0, ctx)

\* self.inner.mainframe().await
EvaluateStealth(t) ==
    /\ Begin(t, "evaluate_stealth")
    /\ Spend(t)
    /\ Send(t, <<>>, MainFrameReq, "ev_frame_wait")
    /\ loc' = [loc EXCEPT ![t] = NoLoc]
    /\ result' = [result EXCEPT ![t] = NoResult]
    /\ UNCHANGED <<mouse_pos, resp, faults, doc, worlds, bz, pf, lock>>

\* mutant: a missing main frame is not told from a frame
FrameAssumed(r) == FALSE

\* .ok_or_else(|| anyhow!("No main frame available"))? : mainframe() gave None
FrameMissing(r) == r.n = 0

\* .map_err(..)?.ok_or_else(..)?  and then execute(CreateIsolatedWorldParams).await
EvalFrame(t) ==
    /\ pc[t] = "ev_frame_resp"
    /\ IF ~resp[t].ok
       THEN /\ Return(t, Anyhow(resp[t]))
            /\ UNCHANGED <<loc, sent, issued, lastMove>>
       ELSE IF FrameMissing(resp[t])
       THEN /\ Return(t, ErrResult(NoMainFrame))
            /\ UNCHANGED <<loc, sent, issued, lastMove>>
       ELSE /\ loc' = [loc EXCEPT ![t].frame = resp[t].n]
            /\ Send(t, sent[t], IsolatedWorldReq(resp[t].n), "ev_world_wait")
            /\ UNCHANGED result
    /\ UNCHANGED <<mouse_pos, op, resp, budget, faults, doc, worlds, bz, pf, lock>>

\* mutant: the context id is the one the session created first, kept
ContextIdCached(r) == 1

\* ctx_id = isolated_world.result.execution_context_id
ContextId(r) == r.n

\* execute(EvaluateParams .. .context_id(ctx_id)).await
EvalWorld(t) ==
    /\ pc[t] = "ev_world_resp"
    /\ IF ~resp[t].ok
       THEN /\ Return(t, Anyhow(resp[t]))
            /\ UNCHANGED <<loc, sent, issued, lastMove>>
       ELSE /\ loc' = [loc EXCEPT ![t].ctx = ContextId(resp[t])]
            /\ Send(t, sent[t], EvaluateReq(ContextId(resp[t])), "ev_eval_wait")
            /\ UNCHANGED result
    /\ UNCHANGED <<mouse_pos, op, resp, budget, faults, doc, worlds, bz, pf, lock>>

\* mutant: a failed evaluation is returned as an empty result
EvalOutcomeLenient(r) == OkResult(IF r.ok THEN r.val ELSE "none")

\* let res = execute(params).await.map_err(..)?;  Ok(res.result.result.value)
EvalOutcome(r) == IF r.ok THEN OkResult(r.val) ELSE Anyhow(r)

EvalValue(t) ==
    /\ pc[t] = "ev_eval_resp"
    /\ Return(t, EvalOutcome(resp[t]))
    /\ UNCHANGED <<mouse_pos, op, loc, resp, sent, budget, faults, issued,
                   lastMove, doc, worlds, bz, pf, lock>>

(***************************************************************************)
(* GhostPage::move_mouse_human, click, click_human                         *)
(***************************************************************************)
\* self.inner.move_mouse(point) and self.inner.click(pos), as requests
MoveReq(p) == Req(DispatchMouseEvent, "mouseMoved", "", "", p, 0, 0)
ClickReq(p) == Req(DispatchMouseEvent, "click", "", "", p, 0, 0)

\* mutant: the guard is bound to a variable that lives to the end of the call
GuardKept(t) == t

\* the MutexGuard of `{ *self.mouse_pos.lock().unwrap() }` and of
\* `*self.mouse_pos.lock().unwrap() = point;` is a temporary: it is dropped
\* at the end of the block or statement, before the next .await
GuardAfterStatement(t) == 0

\* self.mouse_pos.lock().unwrap(): the caller goes on when no guard is alive
\* (no caller panics with the guard alive, so the Mutex is never poisoned)
LockMousePos(t) ==
    /\ lock = 0
    /\ lock' = GuardAfterStatement(t)

\* mutant: the start is a value cached at construction
StaleStart == Origin

\* let start = { *self.mouse_pos.lock().unwrap() };
MoveStart == mouse_pos

\* target_with_jitter
JitteredTarget(target, j) == Pt(target.x + j.x, target.y + j.y)

\* mutant: the position is assigned before the dispatch is known to have succeeded
PosAssignedFirst(r, p) == p

\* the position the session holds once the dispatch of p has been answered:
\* `?` returns before the assignment when the dispatch failed
PosAfterDispatch(r, p) == IF r.ok THEN p ELSE mouse_pos

\* move_mouse_human up to its first .await: the start is read, the path is
\* generated (or generate panics) and the first point is dispatched
MoveEnter(t, log, target, j, rnd) ==
    LET start == MoveStart
        end == JitteredTarget(target, j)
        frame == [NoLoc EXCEPT !.start = start, !.target = end]
    IN  IF GeneratePanics(start, end, MoveSteps)
        THEN /\ Panic(t)
             /\ loc' = [loc EXCEPT ![t] = frame]
             /\ sent' = [sent EXCEPT ![t] = log]
             /\ UNCHANGED <<issued, lastMove>>
        ELSE LET path == Generate(start, end, MoveSteps, rnd)
             IN  /\ loc' = [loc EXCEPT ![t] = [frame EXCEPT !.path = path, !.idx = 1]]
                 /\ Send(t, log, MoveReq(path[1]), "mv_wait")
                 /\ result' = [result EXCEPT ![t] = NoResult]
                 /\ Spend(t)

MoveMouseHumanTo(t, targets, draws) ==
    /\ Begin(t, "move_mouse_human")
    /\ \E target \in targets, d \in draws :
            MoveEnter(t, <<>>, target, d.j, d.rnd)
    /\ LockMousePos(t)
    /\ UNCHANGED <<mouse_pos, resp, faults, doc, worlds, bz, pf>>

MoveMouseHuman(t) == MoveMouseHumanTo(t, Targets, MoveDraws)

\* move_mouse(point).await.map_err(..)?;  *self.mouse_pos.lock().unwrap() = point;
MoveDispatched(t) ==
    /\ pc[t] = "mv_resp"
    /\ mouse_pos' = PosAfterDispatch(resp[t], loc[t].path[loc[t].idx])
    /\ IF resp[t].ok
       THEN /\ LockMousePos(t)
            /\ pc' = [pc EXCEPT ![t] = "mv_sleep"]
            /\ UNCHANGED result
       ELSE /\ Return(t, Anyhow(resp[t]))
            /\ UNCHANGED lock
    /\ UNCHANGED <<op, loc, resp, sent, budget, faults, issued, lastMove, doc,
                   worlds, bz, pf>>

\* the 5..15 ms sleep is over: the next point is dispatched, or the path is
\* done and move_mouse_human returns Ok(()) (to click_human, when it called)
MoveNext(t) ==
    /\ pc[t] = "mv_sleep"
    /\ IF loc[t].idx < Len(loc[t].path)
       THEN /\ loc' = [loc EXCEPT ![t].idx = @ + 1]
            /\ Send(t, sent[t], MoveReq(loc[t].path[loc[t].idx + 1]), "mv_wait")
            /\ UNCHANGED result
       ELSE /\ IF op[t] = "click_human"
               THEN /\ pc' = [pc EXCEPT ![t] = "ch_pause"]
                    /\ UNCHANGED result
               ELSE Return(t, OkResult(""))
            /\ UNCHANGED <<loc, sent, issued, lastMove>>
    /\ UNCHANGED <<mouse_pos, op, resp, budget, faults, doc, worlds, bz, pf, lock>>

\* The caller drops the future of move_mouse_human (a timeout, a select!)
\* while it is suspended: at move_mouse(point).await, before or after the
\* page has handled the event, or at sleep(..).await.  Nothing of the call
\* runs any more: the statement after the .await is never reached.
CancelledResult == [kind |-> "Cancelled", val |-> "", msg |-> ""]

CancelMove(t) ==
    /\ pc[t] \in MovePcs
    /\ op[t] = "move_mouse_human"
    /\ Return(t, CancelledResult)
    /\ UNCHANGED <<mouse_pos, op, loc, resp, sent, budget, faults, issued,
                   lastMove, doc, worlds, bz, pf, lock>>

\* mutant: the click goes to the corner the pointer started in
ClickPosInitial == Origin

\* let pos = { *self.mouse_pos.lock().unwrap() };
ClickPos == mouse_pos

\* click up to its .await: the position is read and the click dispatched there
ClickEnter(t, log, frame) ==
    LET pos == ClickPos
    IN  /\ loc' = [loc EXCEPT ![t] = [frame EXCEPT !.pos = pos]]
        /\ Send(t, log, ClickReq(pos), "ck_wait")

Click(t) ==
    /\ Begin(t, "click")
    /\ Spend(t)
    /\ ClickEnter(t, <<>>, NoLoc)
    /\ LockMousePos(t)
    /\ result' = [result EXCEPT ![t] = NoResult]
    /\ UNCHANGED <<mouse_pos, resp, faults, doc, worlds, bz, pf>>

\* mutant: a click that has been dispatched forgets the position
ClickedForgetsPosition(t) ==
    /\ pc[t] = "ck_resp"
    /\ mouse_pos' = IF resp[t].ok THEN Origin ELSE mouse_pos
    /\ IF resp[t].ok /\ op[t] = "click_human"
       THEN /\ pc' = [pc EXCEPT ![t] = "ch_settle"]
            /\ UNCHANGED result
       ELSE Return(t, IF resp[t].ok THEN OkResult("") ELSE Anyhow(resp[t]))
    /\ UNCHANGED <<op, loc, resp, sent, budget, faults, issued,
                   lastMove, doc, worlds, bz, pf, lock>>

\* self.inner.click(..).await.map_err(..)?;  Ok(())
Clicked(t) ==
    /\ pc[t] = "ck_resp"
    /\ IF resp[t].ok /\ op[t] = "click_human"
       THEN /\ pc' = [pc EXCEPT ![t] = "ch_settle"]
            /\ UNCHANGED result
       ELSE Return(t, IF resp[t].ok THEN OkResult("") ELSE Anyhow(resp[t]))
    /\ UNCHANGED <<mouse_pos, op, loc, resp, sent, budget, faults, issued,
                   lastMove, doc, worlds, bz, pf, lock>>

\* click_human: self.move_mouse_human(x, y).await?
ClickHuman(t) ==
    /\ Begin(t, "click_human")
    /\ \E target \in Targets, d \in MoveDraws :
            MoveEnter(t, <<>>, target, d.j, d.rnd)
    /\ LockMousePos(t)
    /\ UNCHANGED <<mouse_pos, resp, faults, doc, worlds, bz, pf>>

\* click_human: the 50..150 ms pause is over; self.click().await?
ClickHumanClick(t) ==
    /\ pc[t] = "ch_pause"
    /\ ClickEnter(t, sent[t], loc[t])
    /\ LockMousePos(t)
    /\ UNCHANGED <<mouse_pos, op, resp, result, budget, faults, doc, worlds, bz, pf>>

\* click_human: the 30..80 ms pause is over; Ok(())
ClickHumanDone(t) ==
    /\ pc[t] = "ch_settle"
    /\ Return(t, OkResult(""))
    /\ UNCHANGED <<mouse_pos, op, loc, resp, sent, budget, faults, issued,
                   lastMove, doc, worlds, bz, pf, lock>>

(***************************************************************************)
(* GhostPage::type_text, type_text_with_delay                              *)
(***************************************************************************)
\* DispatchKeyEventParams: KeyDown with .text(c), and KeyUp with nothing else
KeyDownReq(c) == Req(DispatchKeyEvent, "keyDown", c, "", Origin, 0, 0)
KeyUpReq == Req(DispatchKeyEvent, "keyUp", "", "", Origin, 0, 0)

\* rng.gen_range(min_delay_ms..max_delay_ms) panics on an empty range
DelayPanics(lo, hi) == lo >= hi

\* type_text_with_delay up to its first .await:  for c in text.chars()
TypeEnter(t, text, lo, hi) ==
    /\ loc' = [loc EXCEPT ![t] = [NoLoc EXCEPT !.text = text, !.ci = 1,
                                                !.lo = lo, !.hi = hi]]
    /\ Spend(t)
    /\ IF text = <<>>
       THEN /\ Return(t, OkResult(""))
            /\ sent' = [sent EXCEPT ![t] = <<>>]
            /\ UNCHANGED <<issued, lastMove>>
       ELSE /\ Send(t, <<>>, KeyDownReq(text[1]), "td_down_wait")
            /\ result' = [result EXCEPT ![t] = NoResult]

TypeText(t) ==
    /\ Begin(t, "type_text")
    /\ \E text \in Texts : TypeEnter(t, text, TypeMinDelay, TypeMaxDelay)
    /\ UNCHANGED <<mouse_pos, resp, faults, doc, worlds, bz, pf, lock>>

TypeTextWithDelay(t) ==
    /\ Begin(t, "type_text_with_delay")
    /\ \E text \in Texts, d \in DelayRanges : TypeEnter(t, text, d.lo, d.hi)
    /\ UNCHANGED <<mouse_pos, resp, faults, doc, worlds, bz, pf, lock>>

\* mutant: the key-up is sent whatever became of the key-down
TypeKeyDownUnchecked(t) ==
    /\ pc[t] = "td_down_resp"
    /\ Send(t, sent[t], KeyUpReq, "td_up_wait")
    /\ UNCHANGED <<mouse_pos, op, loc, resp, result, budget, faults, doc, worlds, bz, pf, lock>>

\* mutant: no key-up follows the key-down
TypeKeyDownOnly(t) ==
    /\ pc[t] = "td_down_resp"
    /\ IF resp[t].ok
       THEN /\ pc' = [pc EXCEPT ![t] = "td_sleep"]
            /\ UNCHANGED result
       ELSE Return(t, Anyhow(resp[t]))
    /\ UNCHANGED <<mouse_pos, op, loc, resp, sent, budget, faults, issued,
                   lastMove, doc, worlds, bz, pf, lock>>

\* execute(key_down).await.map_err(..)?;  execute(key_up).await
TypeKeyDown(t) ==
    /\ pc[t] = "td_down_resp"
    /\ IF resp[t].ok
       THEN /\ Send(t, sent[t], KeyUpReq, "td_up_wait")
            /\ UNCHANGED result
       ELSE /\ Return(t, Anyhow(resp[t]))
            /\ UNCHANGED <<sent, issued, lastMove>>
    /\ UNCHANGED <<mouse_pos, op, loc, resp, budget, faults, doc, worlds, bz, pf, lock>>

\* execute(key_up).await.map_err(..)?;  the delay is drawn;  sleep(..).await
TypeKeyUp(t) ==
    /\ pc[t] = "td_up_resp"
    /\ IF ~resp[t].ok
       THEN /\ Return(t, Anyhow(resp[t]))
            /\ UNCHANGED budget
       ELSE IF DelayPanics(loc[t].lo, loc[t].hi)
       THEN Panic(t)
       ELSE /\ pc' = [pc EXCEPT ![t] = "td_sleep"]
            /\ UNCHANGED <<result, budget>>
    /\ UNCHANGED <<mouse_pos, op, loc, resp, sent, faults, issued, lastMove, doc,
                   worlds, bz, pf, lock>>

\* the delay is over: the next character, or Ok(())
TypeNext(t) ==
    /\ pc[t] = "td_sleep"
    /\ IF loc[t].ci < Len(loc[t].text)
       THEN /\ loc' = [loc EXCEPT ![t].ci = @ + 1]
            /\ Send(t, sent[t], KeyDownReq(loc[t].text[loc[t].ci + 1]), "td_down_wait")
            /\ UNCHANGED result
       ELSE /\ Return(t, OkResult(""))
            /\ UNCHANGED <<loc, sent, issued, lastMove>>
    /\ UNCHANGED <<mouse_pos, op, resp, budget, faults, doc, worlds, bz, pf, lock>>

(***************************************************************************)
(* GhostPage::press_key, press_enter, press_tab                            *)
(***************************************************************************)
\* the match of press_key: (key_str, code) for the key named
KeyStrCode(key) == <<key, key>>

\* RawKeyDown and KeyUp with .key(key_str).code(code)
RawKeyDownReq(key) ==
    Req(DispatchKeyEvent, "rawKeyDown", "", KeyStrCode(key)[1], Origin, 0, 0)
KeyUpOfReq(key) ==
    Req(DispatchKeyEvent, "keyUp", "", KeyStrCode(key)[1], Origin, 0, 0)

\* press_key up to its first .await
PressKeyEnter(t, log, frame, key) ==
    /\ loc' = [loc EXCEPT ![t] = [frame EXCEPT !.key = key]]
    /\ Send(t, log, RawKeyDownReq(key), "pk_down_wait")

PressKey(t) ==
    /\ Begin(t, "press_key")
    /\ Spend(t)
    /\ \E key \in Keys : PressKeyEnter(t, <<>>, NoLoc, key)
    /\ result' = [result EXCEPT ![t] = NoResult]
    /\ UNCHANGED <<mouse_pos, resp, faults, doc, worlds, bz, pf, lock>>

\* press_enter and press_tab sleep first
PressPause(t, o, key) ==
    /\ Begin(t, o)
    /\ Spend(t)
    /\ loc' = [loc EXCEPT ![t] = [NoLoc EXCEPT !.key = key]]
    /\ pc' = [pc EXCEPT ![t] = "pk_pause"]
    /\ sent' = [sent EXCEPT ![t] = <<>>]
    /\ result' = [result EXCEPT ![t] = NoResult]
    /\ UNCHANGED <<mouse_pos, resp, faults, issued, lastMove, doc, worlds, bz, pf, lock>>

PressEnter(t) == PressPause(t, "press_enter", "Enter")

PressTab(t) == PressPause(t, "press_tab", "Tab")

\* the pause is over:  self.press_key(..).await
PressPaused(t) ==
    /\ pc[t] = "pk_pause"
    /\ PressKeyEnter(t, sent[t], loc[t], loc[t].key)
    /\ UNCHANGED <<mouse_pos, op, resp, result, budget, faults, doc, worlds, bz, pf, lock>>

\* execute(key_down).await.map_err(..)?;  execute(key_up).await
PressKeyDown(t) ==
    /\ pc[t] = "pk_down_resp"
    /\ IF resp[t].ok
       THEN /\ Send(t, sent[t], KeyUpOfReq(loc[t].key), "pk_up_wait")
            /\ UNCHANGED result
       ELSE /\ Return(t, Anyhow(resp[t]))
            /\ UNCHANGED <<sent, issued, lastMove>>
    /\ UNCHANGED <<mouse_pos, op, loc, resp, budget, faults, doc, worlds, bz, pf, lock>>

\* execute(key_up).await.map_err(..)?;  Ok(())  (to type_text_with_typos, when
\* it called)
PressKeyUp(t) ==
    /\ pc[t] = "pk_up_resp"
    /\ IF resp[t].ok /\ op[t] = "type_text_with_typos"
       THEN /\ pc' = [pc EXCEPT ![t] = "tt_fix"]
            /\ UNCHANGED result
       ELSE Return(t, IF resp[t].ok THEN OkResult("") ELSE Anyhow(resp[t]))
    /\ UNCHANGED <<mouse_pos, op, loc, resp, sent, budget, faults, issued,
                   lastMove, doc, worlds, bz, pf, lock>>

(***************************************************************************)
(* GhostPage::type_text_with_typos, type_single_char                       *)
(***************************************************************************)
\* typo_chars
TypoChars == <<"q", "w", "e", "r", "t", "a", "s", "d", "f", "g">>

\* c.is_alphabetic()
IsAlphabetic(c) == c \in Letters \cup {TypoChars[k] : k \in DOMAIN TypoChars}

\* mutant: the character is not looked at
TypoInjectedAnywhere(coin, c) == coin

\* if rng.gen_bool(0.03) && c.is_alphabetic()
TypoInjected(coin, c) == coin /\ IsAlphabetic(c)

\* The loop body of type_text_with_typos for character i, up to its first
\* .await: a typo is typed first, or the character itself.
TyposChar(t, log, text, i) ==
    \E coin \in BOOLEAN, k \in TypoDraws :
        IF TypoInjected(coin, text[i])
        THEN /\ loc' = [loc EXCEPT ![t] = [NoLoc EXCEPT !.text = text, !.ci = i,
                                !.stage = "typo", !.typo = TypoChars[k]]]
             /\ Send(t, log, KeyDownReq(TypoChars[k]), "ts_down_wait")
        ELSE /\ loc' = [loc EXCEPT ![t] = [NoLoc EXCEPT !.text = text, !.ci = i,
                                !.stage = "char"]]
             /\ Send(t, log, KeyDownReq(text[i]), "ts_down_wait")

TypeTextWithTypos(t) ==
    /\ Begin(t, "type_text_with_typos")
    /\ Spend(t)
    /\ \E text \in Texts :
        IF text = <<>>
        THEN /\ Return(t, OkResult(""))
             /\ loc' = [loc EXCEPT ![t] = NoLoc]
             /\ sent' = [sent EXCEPT ![t] = <<>>]
             /\ UNCHANGED <<issued, lastMove>>
        ELSE /\ TyposChar(t, <<>>, text, 1)
             /\ result' = [result EXCEPT ![t] = NoResult]
    /\ UNCHANGED <<mouse_pos, resp, faults, doc, worlds, bz, pf, lock>>

\* type_single_char: execute(key_down).await.map_err(..)?;  execute(key_up).await
SingleKeyDown(t) ==
    /\ pc[t] = "ts_down_resp"
    /\ IF resp[t].ok
       THEN /\ Send(t, sent[t], KeyUpReq, "ts_up_wait")
            /\ UNCHANGED result
       ELSE /\ Return(t, Anyhow(resp[t]))
            /\ UNCHANGED <<sent, issued, lastMove>>
    /\ UNCHANGED <<mouse_pos, op, loc, resp, budget, faults, doc, worlds, bz, pf, lock>>

\* type_single_char: execute(key_up).await.map_err(..)?;  Ok(())  and the sleep
\* that follows it in type_text_with_typos
SingleKeyUp(t) ==
    /\ pc[t] = "ts_up_resp"
    /\ IF resp[t].ok
       THEN /\ pc' = [pc EXCEPT ![t] = IF loc[t].stage = "typo"
                                       THEN "tt_notice" ELSE "tt_sleep"]
            /\ UNCHANGED result
       ELSE Return(t, Anyhow(resp[t]))
    /\ UNCHANGED <<mouse_pos, op, loc, resp, sent, budget, faults, issued,
                   lastMove, doc, worlds, bz, pf, lock>>

\* the mistake is noticed:  self.press_key("Backspace").await?
TyposNotice(t) ==
    /\ pc[t] = "tt_notice"
    /\ PressKeyEnter(t, sent[t], loc[t], "Backspace")
    /\ UNCHANGED <<mouse_pos, op, resp, result, budget, faults, doc, worlds, bz, pf, lock>>

\* after the Backspace:  self.type_single_char(c).await?
TyposFix(t) ==
    /\ pc[t] = "tt_fix"
    /\ loc' = [loc EXCEPT ![t].stage = "char"]
    /\ Send(t, sent[t], KeyDownReq(loc[t].text[loc[t].ci]), "ts_down_wait")
    /\ UNCHANGED <<mouse_pos, op, resp, result, budget, faults, doc, worlds, bz, pf, lock>>

\* the delay after a character is over: the next character, or Ok(())
TyposNext(t) ==
    /\ pc[t] = "tt_sleep"
    /\ IF loc[t].ci < Len(loc[t].text)
       THEN /\ TyposChar(t, sent[t], loc[t].text, loc[t].ci + 1)
            /\ UNCHANGED result
       ELSE /\ Return(t, OkResult(""))
            /\ UNCHANGED <<loc, sent, issued, lastMove>>
    /\ UNCHANGED <<mouse_pos, op, resp, budget, faults, doc, worlds, bz, pf, lock>>

(***************************************************************************)
(* GhostPage::scroll_human                                                 *)
(***************************************************************************)
Min(a, b) == IF a < b THEN a ELSE b
Max(a, b) == IF a > b THEN a ELSE b

\* integer division of Rust by a positive divisor (and  as i32  of a
\* float): towards zero
TruncDiv(a, b) ==
    IF a < 0 /\ a % b # 0 THEN (a \div b) + 1 ELSE a \div b

\* delta_y.abs() has no i32 value: with overflow checks (the debug profile)
\* it panics, without them (the release profile) it wraps
AbsOverflows(delta) == delta = I32Min

\* delta_y.abs() without overflow checks: i32::MIN.abs() is i32::MIN
WrappingAbs(delta) == IF delta = I32Min THEN I32Min ELSE Abs(delta)

\* let steps = (delta_y.abs() / 50).max(3).min(15)
ScrollSteps(delta) ==
    Min(Max(TruncDiv(WrappingAbs(delta), ScrollPerStep), ScrollMinSteps),
        ScrollMaxSteps)

\* (base_step as f64 * ease) as i32, with progress = i / steps and ease
\*   progress / 0.3 * 0.5 + 0.5          when progress < 0.3
\*   (1 - progress) / 0.3 * 0.5 + 0.5    when progress > 0.7
\*   1                                   otherwise
\* as a fraction over 6 * steps.
Eased(base, i, steps) ==
    LET num == IF 10 * i < 3 * steps THEN 10 * i + 3 * steps
               ELSE IF 10 * i > 7 * steps THEN 10 * (steps - i) + 3 * steps
               ELSE 6 * steps
        den == 6 * steps
        mag == (Abs(base) \div den) * num + ((Abs(base) % den) * num) \div den
    IN  IF base < 0 THEN -mag ELSE mag

\* .clamp(-200, 200)
Clamp(v) == Max(-ScrollClamp, Min(ScrollClamp, v))

\* let step = ((base_step as f64 * ease) as i32 + jitter).clamp(-200, 200)
WheelStep(remaining, i, steps, jitter) ==
    Clamp(Eased(TruncDiv(remaining, steps - i), i, steps) + jitter)

\* The loop of scroll_human from iteration i up to its next .await: each
\* iteration draws a jitter; a step of 0 goes on to the next iteration
\* (continue).  The outcomes are the wheel events it may dispatch next, as
\* [i, step], and [i |-> steps, step |-> 0] when the loop may end first.
\* mutant: a step of 0 is dispatched like any other
ScrollOutcomesUnskipped(remaining, i, steps) ==
    IF i >= steps
    THEN {[i |-> steps, step |-> 0]}
    ELSE {[i |-> i, step |-> WheelStep(remaining, i, steps, j)] : j \in ScrollJitters}

RECURSIVE ScrollOutcomes(_, _, _)
ScrollOutcomes(remaining, i, steps) ==
    IF i >= steps
    THEN {[i |-> steps, step |-> 0]}
    ELSE UNION {IF WheelStep(remaining, i, steps, j) = 0
                THEN ScrollOutcomes(remaining, i + 1, steps)
                ELSE {[i |-> i, step |-> WheelStep(remaining, i, steps, j)]}
                : j \in ScrollJitters}

\* mutant: the wheel event goes where the pointer is when it is dispatched
WheelReqAtCurrent(pos, step) ==
    [Req(DispatchMouseEvent, "mouseWheel", "", "", mouse_pos, step, 0)
        EXCEPT !.dx = WheelDeltaX]

\* DispatchMouseEventParams: MouseWheel at pos, delta_x 0, delta_y step
WheelReq(pos, step) ==
    [Req(DispatchMouseEvent, "mouseWheel", "", "", pos, step, 0)
        EXCEPT !.dx = WheelDeltaX]

\* the iterations from i on, up to the next .await or to Ok(())
ScrollLoop(t, log, frame, i) ==
    \E o \in ScrollOutcomes(frame.remaining, i, frame.steps) :
        /\ loc' = [loc EXCEPT ![t] = [frame EXCEPT !.si = o.i, !.step = o.step]]
        /\ IF o.i >= frame.steps
           THEN /\ Return(t, OkResult(""))
                /\ sent' = [sent EXCEPT ![t] = log]
                /\ UNCHANGED <<issued, lastMove>>
           ELSE /\ Send(t, log, WheelReq(frame.pos, o.step), "sc_wait")
                /\ result' = [result EXCEPT ![t] = NoResult]

\* let pos = { *self.mouse_pos.lock().unwrap() };  steps;  remaining = delta_y
ScrollHumanBy(t, deltas) ==
    /\ Begin(t, "scroll_human")
    /\ \E delta \in deltas :
        LET frame == [NoLoc EXCEPT !.pos = mouse_pos, !.delta = delta]
        IN  \/ /\ AbsOverflows(delta)
               /\ Panic(t)
               /\ loc' = [loc EXCEPT ![t] = frame]
               /\ sent' = [sent EXCEPT ![t] = <<>>]
               /\ UNCHANGED <<issued, lastMove>>
            \/ /\ Spend(t)
               /\ ScrollLoop(t, <<>>, [frame EXCEPT !.steps = ScrollSteps(delta),
                                                    !.remaining = delta], 0)
    /\ LockMousePos(t)
    /\ UNCHANGED <<mouse_pos, resp, faults, doc, worlds, bz, pf>>

ScrollHuman(t) == ScrollHumanBy(t, ScrollDeltas)

\* execute(scroll).await.map_err(..)?;  remaining -= step;  sleep(..).await
Scrolled(t) ==
    /\ pc[t] = "sc_resp"
    /\ IF resp[t].ok
       THEN /\ loc' = [loc EXCEPT ![t].remaining = @ - loc[t].step]
            /\ pc' = [pc EXCEPT ![t] = "sc_sleep"]
            /\ UNCHANGED result
       ELSE /\ Return(t, Anyhow(resp[t]))
            /\ UNCHANGED loc
    /\ UNCHANGED <<mouse_pos, op, resp, sent, budget, faults, issued, lastMove,
                   doc, worlds, bz, pf, lock>>

\* the 16..50 ms sleep is over: the next iterations
ScrollNext(t) ==
    /\ pc[t] = "sc_sleep"
    /\ ScrollLoop(t, sent[t], loc[t], loc[t].si + 1)
    /\ UNCHANGED <<mouse_pos, op, resp, budget, faults, doc, worlds, bz, pf, lock>>

(***************************************************************************)
(* Profiles: Gpu, Os, ChaserProfile and its builder                        *)
(***************************************************************************)
Gpus == {"NvidiaRTX3080", "NvidiaRTX4080", "NvidiaGTX1660", "IntelUHD630",
         "IntelIrisXe", "AppleM1Pro", "AppleM2Max", "AppleM4Max", "AmdRadeonRX6800"}

\* Gpu::vendor
Vendor(gpu) ==
    CASE gpu \in {"NvidiaRTX3080", "NvidiaRTX4080", "NvidiaGTX1660"} -> "Google Inc. (NVIDIA)"
      [] gpu \in {"IntelUHD630", "IntelIrisXe"} -> "Google Inc. (Intel)"
      [] gpu \in {"AppleM1Pro", "AppleM2Max", "AppleM4Max"} -> "Google Inc. (Apple)"
      [] gpu = "AmdRadeonRX6800" -> "Google Inc. (AMD)"

\* Gpu::renderer
Renderer(gpu) ==
    CASE gpu = "NvidiaRTX3080" -> "ANGLE (NVIDIA, NVIDIA GeForce RTX 3080 Direct3D11 vs_5_0 ps_5_0)"
      [] gpu = "NvidiaRTX4080" -> "ANGLE (NVIDIA, NVIDIA GeForce RTX 4080 Direct3D11 vs_5_0 ps_5_0)"
      [] gpu = "NvidiaGTX1660" -> "ANGLE (NVIDIA, NVIDIA GeForce GTX 1660 SUPER Direct3D11 vs_5_0 ps_5_0)"
      [] gpu = "IntelUHD630" -> "ANGLE (Intel, Intel(R) UHD Graphics 630 Direct3D11 vs_5_0 ps_5_0)"
      [] gpu = "IntelIrisXe" -> "ANGLE (Intel, Intel(R) Iris(R) Xe Graphics Direct3D11 vs_5_0 ps_5_0)"
      [] gpu = "AppleM1Pro" -> "ANGLE (Apple, Apple M1 Pro, OpenGL 4.1)"
      [] gpu = "AppleM2Max" -> "ANGLE (Apple, Apple M2 Max, OpenGL 4.1)"
      [] gpu = "AppleM4Max" -> "ANGLE (Apple, ANGLE Metal Renderer: Apple M4 Max, Unspecified Version)"
      [] gpu = "AmdRadeonRX6800" -> "ANGLE (AMD, AMD Radeon RX 6800 XT Direct3D11 vs_5_0 ps_5_0)"

OsSet == {"Windows", "MacOSIntel", "MacOSArm", "Linux"}

\* Os::platform
Platform(os) ==
    CASE os = "Windows" -> "Win32"
      [] os \in {"MacOSIntel", "MacOSArm"} -> "MacIntel"
      [] os = "Linux" -> "Linux x86_64"

\* Os::hints_platform
HintsPlatform(os) ==
    CASE os = "Windows" -> "Windows"
      [] os \in {"MacOSIntel", "MacOSArm"} -> "macOS"
      [] os = "Linux" -> "Linux"

\* ChaserProfile::new: (screen_width, screen_height, device_pixel_ratio,
\* cpu_cores) of the Os; the device pixel ratio is counted in tenths
OsDefaults(os) ==
    CASE os = "Windows" -> [w |-> 1920, h |-> 1080, dpr |-> 10, cores |-> 8]
      [] os = "MacOSIntel" -> [w |-> 1440, h |-> 900, dpr |-> 20, cores |-> 8]
      [] os = "MacOSArm" -> [w |-> 1728, h |-> 1117, dpr |-> 20, cores |-> 14]
      [] os = "Linux" -> [w |-> 1920, h |-> 1080, dpr |-> 10, cores |-> 8]

\* ChaserProfile::new: gpu: match os { .. }
OsGpu(os) ==
    CASE os = "Windows" -> "NvidiaRTX3080"
      [] os = "MacOSIntel" -> "AppleM1Pro"
      [] os = "MacOSArm" -> "AppleM4Max"
      [] os = "Linux" -> "NvidiaGTX1660"

\* ChaserProfile::new: chrome_version: 131, memory_gb: 8
DefaultChromeVersion == 131
DefaultMemoryGb == 8

\* mutant: the cores of the Os are not looked up
NewBuilderEightCores(os) ==
    [os |-> os, chrome_version |-> DefaultChromeVersion, gpu |-> OsGpu(os),
     memory_gb |-> DefaultMemoryGb, cpu_cores |-> 8,
     locale |-> "en-US", timezone |-> "America/New_York",
     screen_width |-> OsDefaults(os).w, screen_height |-> OsDefaults(os).h,
     device_pixel_ratio |-> OsDefaults(os).dpr]

\* ChaserProfile::new(os) -> ChaserProfileBuilder
NewBuilder(os) ==
    [os |-> os, chrome_version |-> DefaultChromeVersion, gpu |-> OsGpu(os),
     memory_gb |-> DefaultMemoryGb, cpu_cores |-> OsDefaults(os).cores,
     locale |-> "en-US", timezone |-> "America/New_York",
     screen_width |-> OsDefaults(os).w, screen_height |-> OsDefaults(os).h,
     device_pixel_ratio |-> OsDefaults(os).dpr]

\* ChaserProfile::windows, macos_intel, macos_arm, linux
PresetWindows == NewBuilder("Windows")
PresetMacosIntel == NewBuilder("MacOSIntel")
PresetMacosArm == NewBuilder("MacOSArm")
PresetLinux == NewBuilder("Linux")

\* the setters of ChaserProfileBuilder
SetChromeVersion(b, version) == [b EXCEPT !.chrome_version = version]
SetGpu(b, gpu) == [b EXCEPT !.gpu = gpu]
SetMemoryGb(b, gb) == [b EXCEPT !.memory_gb = gb]
\* mutant: cpu_cores sizes the memory with the cores
SetCpuCoresAndMemory(b, cores) ==
    [b EXCEPT !.cpu_cores = cores, !.memory_gb = cores]
SetCpuCores(b, cores) == [b EXCEPT !.cpu_cores = cores]
SetLocale(b, locale) == [b EXCEPT !.locale = locale]
SetTimezone(b, tz) == [b EXCEPT !.timezone = tz]
SetScreen(b, width, height) ==
    [b EXCEPT !.screen_width = width, !.screen_height = height]
SetDevicePixelRatio(b, dpr) == [b EXCEPT !.device_pixel_ratio = dpr]

\* ChaserProfileBuilder::build: the profile takes every field of the builder
BuildProfile(b) ==
    [os |-> b.os, chrome_version |-> b.chrome_version, gpu |-> b.gpu,
     memory_gb |-> b.memory_gb, cpu_cores |-> b.cpu_cores,
     locale |-> b.locale, timezone |-> b.timezone,
     screen_width |-> b.screen_width, screen_height |-> b.screen_height,
     device_pixel_ratio |-> b.device_pixel_ratio]

\* format!("{}", n) of an unsigned integer: its decimal digits
Digits == <<"0", "1", "2", "3", "4", "5", "6", "7", "8", "9">>

RECURSIVE FormatDec(_)
FormatDec(n) ==
    IF n < 10 THEN <<Digits[n + 1]>>
    ELSE FormatDec(n \div 10) \o <<Digits[(n % 10) + 1]>>

\* format!("{}", dpr) of the f32 device pixel ratio, counted in tenths:
\* 1.0 prints as 1, 1.5 as 1.5
FormatTenths(d) ==
    IF d % 10 = 0 THEN FormatDec(d \div 10)
    ELSE FormatDec(d \div 10) \o <<".">> \o FormatDec(d % 10)

\* ChaserProfile::user_agent
UserAgent(p) ==
    LET os_part == CASE p.os = "Windows" -> "Windows NT 10.0; Win64; x64"
                     [] p.os \in {"MacOSIntel", "MacOSArm"} ->
                            "Macintosh; Intel Mac OS X 10_15_7"
                     [] p.os = "Linux" -> "X11; Linux x86_64"
    IN  <<"Mozilla/5.0 (", os_part,
          ") AppleWebKit/537.36 (KHTML, like Gecko) Chrome/">>
            \o FormatDec(p.chrome_version) \o <<".0.0.0 Safari/537.36">>

\* bootstrap_script: outerHeight returns {screen_h} + 85
OuterHeightChrome == 85

\* mutant: hardwareConcurrency gets the memory
ScriptCoresFromMemory(p) == FormatDec(p.memory_gb)

\* bootstrap_script: cores = self.cpu_cores
ScriptCores(p) == FormatDec(p.cpu_cores)

\* ChaserProfile::bootstrap_script: the text format! puts in the place of
\* each argument of the template, under the name of the JavaScript property
\* whose getter returns it.  A number is the sequence of its characters.
\* the brands array of the client hints, profiles.rs:404-408; with the
\* suffix ".0.0.0" it is the fullVersionList of profiles.rs:420-424
Brands(chrome_ver, suffix) ==
    <<[brand |-> "Google Chrome", version |-> chrome_ver \o suffix],
      [brand |-> "Chromium", version |-> chrome_ver \o suffix],
      [brand |-> "Not=A?Brand", version |-> <<"2", "4">> \o suffix]>>

\* the object getHighEntropyValues resolves to: architecture, bitness and
\* platformVersion are literals of the template
HighEntropyValues(p) ==
    LET chrome_ver == FormatDec(p.chrome_version)
        full == <<".", "0", ".", "0", ".", "0">>
    IN  [architecture |-> "x86",
         bitness |-> "64",
         brands |-> Brands(chrome_ver, <<>>),
         fullVersionList |-> Brands(chrome_ver, full),
         mobile |-> FALSE,
         model |-> "",
         platform |-> HintsPlatform(p.os),
         platformVersion |-> "10.0.0",
         uaFullVersion |-> chrome_ver \o full]

\* the object the userAgentData getter returns, and its toJSON
UserAgentData(p) ==
    LET low == [brands |-> Brands(FormatDec(p.chrome_version), <<>>),
                mobile |-> FALSE,
                platform |-> HintsPlatform(p.os)]
    IN  [brands |-> low.brands, mobile |-> low.mobile,
         platform |-> low.platform,
         getHighEntropyValues |-> HighEntropyValues(p),
         toJSON |-> low]

BootstrapScript(p) ==
    [ua |-> UserAgent(p),
     platform |-> Platform(p.os),
     hardwareConcurrency |-> ScriptCores(p),
     deviceMemory |-> FormatDec(p.memory_gb),
     devicePixelRatio |-> FormatTenths(p.device_pixel_ratio),
     screenWidth |-> FormatDec(p.screen_width),
     screenHeight |-> FormatDec(p.screen_height),
     availWidth |-> FormatDec(p.screen_width),
     availHeight |-> FormatDec(p.screen_height),
     outerWidth |-> FormatDec(p.screen_width),
     outerHeight |-> FormatDec(p.screen_height) \o <<" ", "+", " ">>
                        \o FormatDec(OuterHeightChrome),
     webglVendor |-> Vendor(p.gpu),
     webglRenderer |-> Renderer(p.gpu),
     brandVersion |-> FormatDec(p.chrome_version),
     hintsPlatform |-> HintsPlatform(p.os),
     userAgentData |-> UserAgentData(p),
     language |-> p.locale,
     timeZone |-> p.timezone]

\* format!("--window-size={},{}", self.screen_width, self.screen_height)
WindowSizeArg(p) ==
    <<"--window-size=">> \o FormatDec(p.screen_width) \o <<",">>
        \o FormatDec(p.screen_height)

\* BrowserConfigBuilder::window_size and ::args: the size is set, the
\* arguments are added to those the builder has
BrowserWindowSize(config, width, height) ==
    [config EXCEPT !.window_size = <<width, height>>]
BrowserArgs(config, args) == [config EXCEPT !.args = @ \o args]

\* ChaserProfile::configure_browser
ConfigureBrowser(p, config) ==
    BrowserArgs(BrowserWindowSize(config, p.screen_width, p.screen_height),
                <<<<"--disable-blink-features=AutomationControlled">>,
                  <<"--disable-infobars">>,
                  WindowSizeArg(p)>>)

\* inputs of the setters and of configure_browser
ChromeVersions == {130}
MemorySizes == {16, 0}
CoreCounts == {12, 4, 0}
Locales == {"de-DE"}
Timezones == {"Europe/Berlin"}
Screens == {<<2560, 1440>>}
PixelRatios == {15}
BaseConfigs == {[window_size |-> <<800, 600>>, args |-> <<>>],
                [window_size |-> <<800, 600>>, args |-> <<<<"--headless">>>>]}

NoBuilder ==
    [os |-> "none", chrome_version |-> 0, gpu |-> "none", memory_gb |-> 0,
     cpu_cores |-> 0, locale |-> "", timezone |-> "", screen_width |-> 0,
     screen_height |-> 0, device_pixel_ratio |-> 0]

\* no profile yet: st is "none", then "builder", then "built"; via is how the
\* builder was made, n the setters called on it
NoProfile ==
    [st |-> "none", via |-> "none", n |-> 0, b |-> NoBuilder, p |-> NoBuilder,
     scripts |-> <<>>, ua |-> <<>>, configs |-> <<>>]

(***************************************************************************)
(* The session's specification                                             *)
(***************************************************************************)
\* no direct call of BezierPath::generate
NoBezier == [st |-> "none", start |-> Origin, end |-> Origin, steps |-> 0,
             rnd |-> [u1x |-> 0, u1y |-> 0, u2x |-> 0, u2y |-> 0, over |-> FALSE],
             path |-> <<>>]

SessionInit(b, f) ==
    /\ mouse_pos = Origin
    /\ pc = [t \in Tasks |-> "idle"]
    /\ op = [t \in Tasks |-> "none"]
    /\ loc = [t \in Tasks |-> NoLoc]
    /\ resp = [t \in Tasks |-> NoResp]
    /\ sent = [t \in Tasks |-> <<>>]
    /\ result = [t \in Tasks |-> NoResult]
    /\ budget = b
    /\ faults = f
    /\ issued = {}
    /\ lastMove = [by |-> 0, p |-> Origin]
    /\ doc = 0
    /\ worlds = <<>>
    /\ lock = 0

\* one caller, its calls one after the other
Init ==
    /\ SessionInit([t \in Tasks |-> IF t = 1 THEN MaxCalls ELSE 0], MaxFaults)
    /\ bz = NoBezier
    /\ pf = NoProfile

Next ==
    \/ \E t \in Tasks : Transport(t)
    \/ Navigate
    \/ \E t \in Tasks : EvaluateStealth(t)
    \/ \E t \in Tasks : EvalFrame(t)
    \/ \E t \in Tasks : EvalWorld(t)
    \/ \E t \in Tasks : EvalValue(t)
    \/ \E t \in Tasks : MoveMouseHuman(t)
    \/ \E t \in Tasks : MoveDispatched(t)
    \/ \E t \in Tasks : MoveNext(t)
    \/ \E t \in Tasks : Click(t)
    \/ \E t \in Tasks : Clicked(t)
    \/ \E t \in Tasks : ClickHuman(t)
    \/ \E t \in Tasks : ClickHumanClick(t)
    \/ \E t \in Tasks : ClickHumanDone(t)
    \/ \E t \in Tasks : TypeText(t)
    \/ \E t \in Tasks : TypeTextWithDelay(t)
    \/ \E t \in Tasks : TypeKeyDown(t)
    \/ \E t \in Tasks : TypeKeyUp(t)
    \/ \E t \in Tasks : TypeNext(t)
    \/ \E t \in Tasks : PressKey(t)
    \/ \E t \in Tasks : PressEnter(t)
    \/ \E t \in Tasks : PressTab(t)
    \/ \E t \in Tasks : PressPaused(t)
    \/ \E t \in Tasks : PressKeyDown(t)
    \/ \E t \in Tasks : PressKeyUp(t)
    \/ \E t \in Tasks : TypeTextWithTypos(t)
    \/ \E t \in Tasks : SingleKeyDown(t)
    \/ \E t \in Tasks : SingleKeyUp(t)
    \/ \E t \in Tasks : TyposNotice(t)
    \/ \E t \in Tasks : TyposFix(t)
    \/ \E t \in Tasks : TyposNext(t)
    \/ \E t \in Tasks : ScrollHuman(t)
    \/ \E t \in Tasks : Scrolled(t)
    \/ \E t \in Tasks : ScrollNext(t)

Spec == Init /\ [][Next]_vars

\* two callers share the session (the GhostPage, or clones of it over the
\* same Arc<Mutex<Point>>): each moves the pointer, at its own pace, and the
\* browser answers every request
ConcInit ==
    /\ SessionInit([t \in Tasks |-> ConcCalls], 0)
    /\ bz = NoBezier
    /\ pf = NoProfile

\* the draws of the concurrent callers: those with a jitter
ConcDraws == {d \in MoveDraws : d.j # Origin}

\* and their targets: those away from the corner the pointer starts in
ConcTargets == Targets \ {Origin}

ConcMove(t) == MoveMouseHumanTo(t, ConcTargets, ConcDraws)

ConcNext ==
    \/ \E t \in Tasks : ConcMove(t)
    \/ \E t \in Tasks : MoveDispatched(t)
    \/ \E t \in Tasks : MoveNext(t)
    \/ \E t \in Tasks : Transport(t)

SpecConc == ConcInit /\ [][ConcNext]_vars

(***************************************************************************)
(* Two callers evaluate scripts on the shared session                      *)
(***************************************************************************)
\* evaluate_stealth takes &self: two calls may be in flight at once, the
\* channel may fail and the page may navigate between their requests
EvalInit ==
    /\ SessionInit([t \in Tasks |-> ConcCalls], MaxFaults)
    /\ bz = NoBezier
    /\ pf = NoProfile

EvalNext ==
    \/ \E t \in Tasks : EvaluateStealth(t)
    \/ \E t \in Tasks : EvalFrame(t)
    \/ \E t \in Tasks : EvalWorld(t)
    \/ \E t \in Tasks : EvalValue(t)
    \/ \E t \in Tasks : Transport(t)
    \/ Navigate

SpecEval == EvalInit /\ [][EvalNext]_vars

(***************************************************************************)
(* Two callers move, click and scroll on the shared session                *)
(***************************************************************************)
SharedInit ==
    /\ SessionInit([t \in Tasks |-> ConcCalls], 0)
    /\ bz = NoBezier
    /\ pf = NoProfile

\* what task t does next in the call it is in
SharedStep(t) ==
    \/ MoveDispatched(t)
    \/ MoveNext(t)
    \/ Clicked(t)
    \/ Scrolled(t)
    \/ ScrollNext(t)

\* the first caller moves the pointer, the second clicks or scrolls meanwhile
Movers == {1}
Scrollers == Tasks \ Movers
SharedDeltas == {-120, I32Min}

SharedNext ==
    \/ \E t \in Movers : ConcMove(t)
    \/ \E t \in Scrollers : Click(t)
    \/ \E t \in Scrollers : ScrollHumanBy(t, SharedDeltas)
    \/ \E t \in Tasks : SharedStep(t)
    \/ \E t \in Tasks : Transport(t)

\* the executor polls every task that can go on, and the browser answers
\* every request dispatched to it; a task in a call waits for one or the other
SharedFairness ==
    \A t \in Tasks : WF_vars(SharedStep(t) \/ Transport(t))

SpecShared == SharedInit /\ [][SharedNext]_vars /\ SharedFairness

(***************************************************************************)
(* One caller moves the pointer and may give a move up                     *)
(***************************************************************************)
CancelInit ==
    /\ SessionInit([t \in Tasks |-> IF t = 1 THEN MaxCalls ELSE 0], MaxFaults)
    /\ bz = NoBezier
    /\ pf = NoProfile

CancelNext ==
    \/ \E t \in Tasks : MoveMouseHuman(t)
    \/ \E t \in Tasks : MoveDispatched(t)
    \/ \E t \in Tasks : MoveNext(t)
    \/ \E t \in Tasks : CancelMove(t)
    \/ \E t \in Tasks : Transport(t)

SpecCancel == CancelInit /\ [][CancelNext]_vars

(***************************************************************************)
(* BezierPath::generate called directly                                    *)
(***************************************************************************)
BezierPoints == {Pt(0, 0), Pt(40, 30), Pt(-7, 12)}

BezierStepCounts == (1..MaxBezierSteps) \cup {MoveSteps}

BezierInit ==
    /\ SessionInit([t \in Tasks |-> 0], 0)
    /\ pf = NoProfile
    /\ \E start \in BezierPoints, end \in BezierPoints,
          steps \in BezierStepCounts, rnd \in BezierRnd :
            bz = [NoBezier EXCEPT !.st = "called", !.start = start, !.end = end,
                                  !.steps = steps, !.rnd = rnd]

\* BezierPath::generate(start, end, steps) returns its path, or panics
BezierGenerate ==
    /\ bz.st = "called"
    /\ bz' = IF GeneratePanics(bz.start, bz.end, bz.steps)
             THEN [bz EXCEPT !.st = "panicked"]
             ELSE [bz EXCEPT !.st = "returned",
                             !.path = Generate(bz.start, bz.end, bz.steps, bz.rnd)]
    /\ UNCHANGED <<mouse_pos, pc, op, loc, resp, sent, result, budget, faults,
                   issued, lastMove, doc, worlds, pf, lock>>

BezierNext == BezierGenerate

SpecBezier == BezierInit /\ [][BezierNext]_vars

(***************************************************************************)
(* A profile is built, and a script and a configuration made from it       *)
(***************************************************************************)
ProfileInit ==
    /\ SessionInit([t \in Tasks |-> 0], 0)
    /\ bz = NoBezier
    /\ pf = NoProfile

ProfileUnchanged ==
    UNCHANGED <<mouse_pos, pc, op, loc, resp, sent, result, budget, faults,
                issued, lastMove, doc, worlds, bz, lock>>

\* a builder comes from ChaserProfile::new or from a preset
Started(via, b) ==
    /\ pf.st = "none"
    /\ pf' = [pf EXCEPT !.st = "builder", !.via = via, !.b = b]
    /\ ProfileUnchanged

ProfileNew == \E os \in OsSet : Started("new", NewBuilder(os))
ProfileWindows == Started("windows", PresetWindows)
ProfileMacosIntel == Started("macos_intel", PresetMacosIntel)
ProfileMacosArm == Started("macos_arm", PresetMacosArm)
ProfileLinux == Started("linux", PresetLinux)

\* impl Default for ChaserProfile: Self::windows().build()
ProfileDefault ==
    /\ pf.st = "none"
    /\ pf' = [pf EXCEPT !.st = "built", !.via = "default", !.b = PresetWindows,
                        !.p = BuildProfile(PresetWindows)]
    /\ ProfileUnchanged

\* a setter is called on the builder
Setter(b) ==
    /\ pf.st = "builder"
    /\ pf.n < MaxSetters
    /\ pf' = [pf EXCEPT !.b = b, !.n = @ + 1]
    /\ ProfileUnchanged

BuilderChromeVersion == \E v \in ChromeVersions : Setter(SetChromeVersion(pf.b, v))
BuilderGpu == \E g \in Gpus : Setter(SetGpu(pf.b, g))
BuilderMemoryGb == \E gb \in MemorySizes : Setter(SetMemoryGb(pf.b, gb))
BuilderCpuCores == \E c \in CoreCounts : Setter(SetCpuCores(pf.b, c))
BuilderLocale == \E l \in Locales : Setter(SetLocale(pf.b, l))
BuilderTimezone == \E z \in Timezones : Setter(SetTimezone(pf.b, z))
BuilderScreen == \E wh \in Screens : Setter(SetScreen(pf.b, wh[1], wh[2]))
BuilderDevicePixelRatio ==
    \E d \in PixelRatios : Setter(SetDevicePixelRatio(pf.b, d))

BuilderBuild ==
    /\ pf.st = "builder"
    /\ pf' = [pf EXCEPT !.st = "built", !.p = BuildProfile(pf.b)]
    /\ ProfileUnchanged

ProfileUserAgent ==
    /\ pf.st = "built"
    /\ pf.ua = <<>>
    /\ pf' = [pf EXCEPT !.ua = UserAgent(pf.p)]
    /\ ProfileUnchanged

ProfileBootstrapScript ==
    /\ pf.st = "built"
    /\ Len(pf.scripts) < MaxScripts
    /\ pf' = [pf EXCEPT !.scripts = Append(@, BootstrapScript(pf.p))]
    /\ ProfileUnchanged

ProfileConfigureBrowser ==
    /\ pf.st = "built"
    /\ Len(pf.configs) < MaxConfigs
    /\ \E base \in BaseConfigs :
            pf' = [pf EXCEPT !.configs = Append(@, ConfigureBrowser(pf.p, base))]
    /\ ProfileUnchanged

ProfileNext ==
    \/ ProfileNew
    \/ ProfileWindows
    \/ ProfileMacosIntel
    \/ ProfileMacosArm
    \/ ProfileLinux
    \/ ProfileDefault
    \/ BuilderChromeVersion
    \/ BuilderGpu
    \/ BuilderMemoryGb
    \/ BuilderCpuCores
    \/ BuilderLocale
    \/ BuilderTimezone
    \/ BuilderScreen
    \/ BuilderDevicePixelRatio
    \/ BuilderBuild
    \/ ProfileUserAgent
    \/ ProfileBootstrapScript
    \/ ProfileConfigureBrowser

SpecProfile == ProfileInit /\ [][ProfileNext]_vars

(***************************************************************************)
(* Properties                                                              *)
(***************************************************************************)
\* the requests of task t's current (or last) call, up to the i-th
Entry(t, i) == sent[t][i]
LastEntry(t) == sent[t][Len(sent[t])]
PointOf(e) == Pt(e.x, e.y)

\* a request as issued, whatever became of it
Issued(e) == [e EXCEPT !.st = "inflight", !.ret = 0, !.at = 0]

Returned(t, o) == op[t] = o /\ pc[t] = "idle" /\ result[t].kind # "none"

OkMoves(t) ==
    {i \in 1..Len(sent[t]) : Entry(t, i).ty = "mouseMoved" /\ Entry(t, i).st = "ok"}

\* the last point of task t's call whose dispatch succeeded; the position
\* before the call when none did
LastOkPoint(t) ==
    IF OkMoves(t) = {}
    THEN loc[t].start
    ELSE PointOf(Entry(t, CHOOSE i \in OkMoves(t) : \A k \in OkMoves(t) : k <= i))

\* task t starts a move_mouse_human in this step
StartsMove(t) == pc[t] = "idle" /\ pc'[t] = "mv_wait"

\* C2: when the dispatch of a point of move_mouse_human fails, the call
\* returns an error and the session's position is the last point whose
\* dispatch succeeded (the position before the call when the first point
\* failed); a move_mouse_human that follows starts its path there.
C2_FailedMoveKeepsLastDispatched ==
    /\ [](\A t \in Tasks :
            Returned(t, "move_mouse_human") /\ result[t].kind = "Err"
                => mouse_pos = LastOkPoint(t))
    /\ [][\A t \in Tasks :
            /\ (pc[t] = "mv_resp" /\ ~resp[t].ok /\ pc'[t] # pc[t])
                    => /\ pc'[t] = "idle"
                       /\ result'[t].kind = "Err"
                       /\ mouse_pos' = LastOkPoint(t)
            /\ (StartsMove(t) /\ op[t] = "move_mouse_human"
                        /\ result[t].kind = "Err")
                    => /\ loc'[t].path[1] = LastOkPoint(t)
                       /\ Issued(sent'[t][1]) = MoveReq(LastOkPoint(t))]_vars

\* a move failed at a point in the middle of its path, and the next has started
C2_Witness ==
    \E t \in Tasks :
        /\ pc[t] = "mv_wait"
        /\ budget[t] = MaxCalls - 2
        /\ faults < MaxFaults
        /\ loc[t].start \notin {Origin} \cup {JitteredTarget(g, d.j) : g \in Targets, d \in MoveDraws}

\* C3: of two move_mouse_human calls one after the other, both succeeding,
\* the second dispatches first the point the first dispatched last, which is
\* the first call's jittered target; the first move of a new GhostPage
\* starts from (0, 0).
C3_SecondMoveStartsWhereFirstEnded ==
    [][\A t \in Tasks :
        StartsMove(t) =>
            /\ (op[t] = "move_mouse_human" /\ result[t].kind = "Ok")
                    => /\ Issued(sent'[t][1]) = Issued(LastEntry(t))
                       /\ PointOf(sent'[t][1]) = loc[t].target
            /\ (\A u \in Tasks : op[u] = "none")
                    => PointOf(sent'[t][1]) = Origin]_vars

\* a second move is under way from the jittered target the first one reached
C3_Witness ==
    \E t \in Tasks :
        /\ op[t] = "move_mouse_human"
        /\ pc[t] = "mv_sleep"
        /\ budget[t] = MaxCalls - 2
        /\ faults = MaxFaults
        /\ loc[t].start = Pt(41, 28)
        /\ loc[t].idx = 2

\* the locations at which a call has the answer to a request in hand
RespPcs == {RespPc(w) : w \in WaitPcs}

FailFastOps == {"move_mouse_human", "type_text_with_delay", "type_text_with_typos",
                "press_key", "scroll_human"}

\* C5: in move_mouse_human, type_text_with_delay, type_text_with_typos,
\* press_key and scroll_human, the first request that fails ends the call:
\* the call returns that failure and no request follows the failed one (no
\* key-up, no later character, point or wheel step, no retry).
C5_FirstFailureEndsTheCall ==
    /\ [](\A t \in Tasks : op[t] \in FailFastOps =>
            /\ \A i \in 1..(Len(sent[t]) - 1) : Entry(t, i).st = "ok"
            /\ (Len(sent[t]) > 0 /\ LastEntry(t).st = "err") =>
                    /\ pc[t] \in RespPcs \cup {"idle"}
                    /\ pc[t] = "idle" => result[t] = ErrResult(ChannelError))
    /\ [][\A t \in Tasks :
            (op[t] \in FailFastOps /\ pc[t] \in RespPcs /\ ~resp[t].ok
                    /\ pc'[t] # pc[t])
                => /\ pc'[t] = "idle"
                   /\ result'[t] = Anyhow(resp[t])
                   /\ sent'[t] = sent[t]]_vars

\* the key-down of the second of three characters failed
C5_Witness ==
    \E t \in Tasks :
        /\ Returned(t, "type_text_with_delay")
        /\ result[t].kind = "Err"
        /\ Len(loc[t].text) = 3
        /\ Len(sent[t]) = 3
        /\ LastEntry(t).ty = "keyDown"
        /\ LastEntry(t).st = "err"

\* task t's evaluate ran in a context that a navigation had invalidated
EvaluatedStale(t) ==
    /\ Len(sent[t]) = 3
    /\ LastEntry(t).m = RuntimeEvaluate
    /\ LastEntry(t).st # "inflight"
    /\ worlds[LastEntry(t).n] # LastEntry(t).at

NoFrameFound(t) ==
    /\ Len(sent[t]) >= 1
    /\ Entry(t, 1).m = MainFrame
    /\ \/ Entry(t, 1).st = "err"
       \/ Entry(t, 1).st = "ok" /\ Entry(t, 1).ret = 0

\* C7: when the main-frame lookup fails or finds no frame, evaluate_stealth
\* returns an error at once: it issues neither createIsolatedWorld nor
\* evaluate.
C7_NoFrameNoRequest ==
    \A t \in Tasks :
        (op[t] = "evaluate_stealth" /\ NoFrameFound(t))
            => /\ Len(sent[t]) = 1
               /\ pc[t] \in {"ev_frame_resp", "idle"}
               /\ pc[t] = "idle" => result[t].kind = "Err"

C7_Witness ==
    \E t \in Tasks :
        /\ Returned(t, "evaluate_stealth")
        /\ NoFrameFound(t)
        /\ Entry(t, 1).st = "ok"
        /\ result[t] = ErrResult(NoMainFrame)

IsKeyDown(e) == e.m = DispatchKeyEvent /\ e.ty \in {"keyDown", "rawKeyDown"}
IsKeyUp(e) == e.m = DispatchKeyEvent /\ e.ty = "keyUp"
IsCharDown(e, c) == e.m = DispatchKeyEvent /\ e.ty = "keyDown" /\ e.text = c
IsBackspaceDown(e) ==
    e.m = DispatchKeyEvent /\ e.ty = "rawKeyDown" /\ e.key = "Backspace"

\* the Backspace presses of task t's call
Backspaces(t) == {i \in 1..Len(sent[t]) : IsBackspaceDown(Entry(t, i))}

\* C9: with no failure, typing n characters dispatches at least n
\* key-down/key-up pairs: type_text exactly n, in the order of the string,
\* each key-down carrying its character and followed by its key-up before
\* the next key-down; type_text_with_typos n, and two more for each typo (the
\* wrong letter and the Backspace).
C9_TypingDispatchesPairs ==
    \A t \in Tasks :
        /\ op[t] = "type_text" =>
            /\ \A i \in 1..Len(sent[t]) :
                    IF i % 2 = 1
                    THEN IsCharDown(Entry(t, i), loc[t].text[(i + 1) \div 2])
                    ELSE IsKeyUp(Entry(t, i))
            /\ (Returned(t, "type_text") /\ result[t].kind = "Ok")
                    => Len(sent[t]) = 2 * Len(loc[t].text)
        /\ op[t] = "type_text_with_typos" =>
            /\ \A i \in 1..Len(sent[t]) :
                    IF i % 2 = 1 THEN IsKeyDown(Entry(t, i)) ELSE IsKeyUp(Entry(t, i))
            /\ (Returned(t, "type_text_with_typos") /\ result[t].kind = "Ok")
                    => /\ Len(sent[t]) >= 2 * Len(loc[t].text)
                       /\ Len(sent[t]) =
                            2 * (Len(loc[t].text) + 2 * Cardinality(Backspaces(t)))

C9_Witness ==
    \E t \in Tasks :
        /\ Returned(t, "type_text")
        /\ result[t].kind = "Ok"
        /\ Len(loc[t].text) = 3
        /\ Len(sent[t]) = 6

\* the requests log[from..] are those of typing text[k..] with typos: for
\* each character its key-down and key-up, preceded, for a letter only and
\* at most once, by a typo letter's key-down and key-up and a Backspace press
RECURSIVE TypedWithTypos(_, _, _, _)
TypedWithTypos(log, from, text, k) ==
    IF k > Len(text)
    THEN from = Len(log) + 1
    ELSE \/ /\ from + 1 <= Len(log)
            /\ IsCharDown(log[from], text[k])
            /\ IsKeyUp(log[from + 1])
            /\ TypedWithTypos(log, from + 2, text, k + 1)
         \/ /\ from + 5 <= Len(log)
            /\ IsAlphabetic(text[k])
            /\ \E j \in DOMAIN TypoChars : IsCharDown(log[from], TypoChars[j])
            /\ IsKeyUp(log[from + 1])
            /\ IsBackspaceDown(log[from + 2])
            /\ IsKeyUp(log[from + 3]) /\ log[from + 3].key = "Backspace"
            /\ IsCharDown(log[from + 4], text[k])
            /\ IsKeyUp(log[from + 5])
            /\ TypedWithTypos(log, from + 6, text, k + 1)

\* what the page holds after the first n requests of log: a key-down with a
\* character appends it, a Backspace removes the last
RECURSIVE TextAfter(_, _)
TextAfter(log, n) ==
    IF n = 0 THEN <<>>
    ELSE LET before == TextAfter(log, n - 1)
             e == log[n]
         IN  IF e.ty = "keyDown" THEN Append(before, e.text)
             ELSE IF IsBackspaceDown(e) /\ Len(before) > 0
             THEN SubSeq(before, 1, Len(before) - 1)
             ELSE before

\* C10: type_text_with_typos, with no failure: a typo comes only before a
\* letter, at most one per character, and each is followed by a Backspace
\* press and then the intended character; the characters dispatched, with
\* the Backspaces applied, are the input text.
C10_TyposAreCorrected ==
    \A t \in Tasks :
        (Returned(t, "type_text_with_typos") /\ result[t].kind = "Ok")
            => /\ TypedWithTypos(sent[t], 1, loc[t].text, 1)
               /\ TextAfter(sent[t], Len(sent[t])) = loc[t].text

\* a text of three characters was typed with one typo
C10_Witness ==
    \E t \in Tasks :
        /\ Returned(t, "type_text_with_typos")
        /\ result[t].kind = "Ok"
        /\ Len(loc[t].text) = 3
        /\ Cardinality(Backspaces(t)) = 1

\* C8: for every start, every end (the start itself too) and every step
\* count n >= 1, whatever is drawn, BezierPath::generate returns n + 1
\* points, the first the start and the last the end.
C8_GenerateReturnsPath ==
    bz.st \in {"returned", "panicked"} =>
        /\ bz.st = "returned"
        /\ Len(bz.path) = bz.steps + 1
        /\ bz.path[1] = bz.start
        /\ bz.path[Len(bz.path)] = bz.end

\* task t dispatches a further point of its path in this step
NextPoint(t) == pc[t] = "mv_sleep" /\ pc'[t] = "mv_wait"

\* C4: two move_mouse_human calls running at once on one session are
\* serialized: between two pointer-move events of one call there is none of
\* the other's, and a call starts its path, while no other call is in its
\* own, at the point the call before it ended at.
C4_ConcurrentMovesSerialized ==
    [][\A t \in Tasks :
        /\ NextPoint(t) => lastMove.by = t
        /\ StartsMove(t) =>
                /\ \A u \in Tasks \ {t} : pc[u] \notin MovePcs
                /\ PointOf(sent'[t][1]) = lastMove.p]_vars

\* C11: the letter type_text_with_typos types as a typo is a wrong one: it
\* differs from the character it is typed before.
C11_TypoIsAWrongLetter ==
    \A t \in Tasks :
        (op[t] = "type_text_with_typos" /\ loc[t].stage = "typo")
            => loc[t].typo # loc[t].text[loc[t].ci]

\* the wheel events of task t's call
WheelEvents(t) == {i \in 1..Len(sent[t]) : Entry(t, i).ty = "mouseWheel"}

\* |delta| / 50 kept within [3, 15], the magnitude taken without overflow
MagnitudeSteps(delta) ==
    Min(Max(Abs(TruncDiv(delta, ScrollPerStep)), ScrollMinSteps), ScrollMaxSteps)

\* C12: for every i32 delta_y, 0, i32::MAX and i32::MIN included,
\* scroll_human does not panic, its step count is |delta_y| / 50 kept within
\* [3, 15], and it dispatches at most that many wheel events.
C12_StepCountFromMagnitude ==
    \A t \in Tasks :
        op[t] = "scroll_human" =>
            /\ result[t] # PanicResult
            /\ loc[t].steps \in ScrollMinSteps..ScrollMaxSteps
            /\ loc[t].steps = MagnitudeSteps(loc[t].delta)
            /\ Cardinality(WheelEvents(t)) <= loc[t].steps

\* the sum of the delta_y of the wheel events among the first n requests
RECURSIVE WheelSum(_, _)
WheelSum(log, n) ==
    IF n = 0 THEN 0
    ELSE WheelSum(log, n - 1) + (IF log[n].ty = "mouseWheel" THEN log[n].dy ELSE 0)

\* C13: with no failure, the delta_y of the wheel events scroll_human
\* dispatched add up to the requested delta_y, give or take 10 px for each
\* step of the step count.
C13_WheelSumNearDelta ==
    \A t \in Tasks :
        (Returned(t, "scroll_human") /\ result[t].kind = "Ok")
            => Abs(loc[t].delta - WheelSum(sent[t], Len(sent[t]))) <= 10 * loc[t].steps

\* the wheel events of task t's call that the browser took
WheelEventsDone(t) == {i \in WheelEvents(t) : Entry(t, i).st = "ok"}

\* the sum of the delta_y of the wheel events among the first n requests
\* that the browser took
RECURSIVE WheelSumDone(_, _)
WheelSumDone(log, n) ==
    IF n = 0 THEN 0
    ELSE WheelSumDone(log, n - 1)
            + (IF log[n].ty = "mouseWheel" /\ log[n].st = "ok" THEN log[n].dy ELSE 0)

\* C14: every wheel event of scroll_human has delta_x 0 and a delta_y other
\* than 0 within [-200, 200]; a step of 0 dispatches nothing, takes no delay
\* and leaves the remaining delta as it was: the remaining delta changes
\* only by the delta_y of a dispatched event, and a delay is taken only
\* after one.
C14_WheelEventsClampedZeroSkipped ==
    /\ [](\A t \in Tasks :
            (op[t] = "scroll_human" /\ result[t] # PanicResult) =>
                /\ \A i \in WheelEvents(t) :
                        /\ Entry(t, i).dx = 0
                        /\ Entry(t, i).dy # 0
                        /\ Entry(t, i).dy \in (-ScrollClamp)..ScrollClamp
                /\ WheelEvents(t) = 1..Len(sent[t])
                /\ pc[t] # "sc_resp" =>
                        loc[t].remaining
                            = loc[t].delta - WheelSumDone(sent[t], Len(sent[t])))
    /\ [][\A t \in Tasks :
            (op[t] = "scroll_human" /\ op'[t] = "scroll_human"
                    /\ pc[t] # "idle" /\ pc'[t] = "sc_sleep" /\ pc[t] # "sc_sleep")
                => /\ pc[t] = "sc_resp"
                   /\ resp[t].ok
                   /\ loc'[t].remaining = loc[t].remaining - LastEntry(t).dy]_vars

\* a scroll of 0 px ended after three steps of which one or two were of 0
C14_Witness ==
    \E t \in Tasks :
        /\ Returned(t, "scroll_human")
        /\ result[t].kind = "Ok"
        /\ loc[t].delta = 0
        /\ loc[t].steps = 3
        /\ Cardinality(WheelEvents(t)) \in {1, 2}

\* the clicks of task t's call
Clicks(t) == {i \in 1..Len(sent[t]) : Entry(t, i).ty = "click"}

ClickPcs == {"ck_wait", "ck_resp"}

\* C15: click dispatches one click, at the session's position, which it
\* leaves as it was.  click_human dispatches every point of its movement
\* and then the click, at the last point of the movement; when the movement
\* fails it dispatches no click.
C15_ClickAtPositionAfterMovement ==
    /\ [](\A t \in Tasks :
            /\ op[t] = "click" =>
                /\ Len(sent[t]) = 1
                /\ Clicks(t) = {1}
                /\ PointOf(Entry(t, 1)) = mouse_pos
            /\ op[t] = "click_human" =>
                /\ Cardinality(Clicks(t)) <= 1
                /\ \A i \in Clicks(t) :
                    /\ i = Len(sent[t])
                    /\ i = MoveSteps + 2
                    /\ \A k \in 1..(i - 1) :
                            Entry(t, k).ty = "mouseMoved" /\ Entry(t, k).st = "ok"
                    /\ PointOf(Entry(t, i)) = PointOf(Entry(t, i - 1))
                    /\ PointOf(Entry(t, i)) = loc[t].target
                    /\ PointOf(Entry(t, i)) = mouse_pos
                /\ (Returned(t, "click_human") /\ result[t].kind = "Ok")
                        => Clicks(t) # {})
    /\ [][\A t \in Tasks :
            (pc[t] \in ClickPcs \/ pc'[t] \in ClickPcs) => mouse_pos' = mouse_pos]_vars

\* a click_human went through: 26 points, then the click at the last
C15_Witness ==
    \E t \in Tasks :
        /\ Returned(t, "click_human")
        /\ result[t].kind = "Ok"
        /\ Clicks(t) = {MoveSteps + 2}
        /\ mouse_pos # Origin

\* C16: every operation of GhostPage, whatever its arguments and whatever
\* the transport answers, ends in Ok or in an Err; none ends in a panic.
C16_NoOperationPanics ==
    \A t \in Tasks :
        /\ result[t] # PanicResult
        /\ Returned(t, op[t]) => result[t].kind \in {"Ok", "Err"}

\* the geometry the defaults are to have: width, height, pixel ratio in tenths
SeededGeometry(os) ==
    CASE os = "Windows" -> <<1920, 1080, 10>>
      [] os = "MacOSIntel" -> <<1440, 900, 20>>
      [] os = "MacOSArm" -> <<1728, 1117, 20>>
      [] os = "Linux" -> <<1920, 1080, 10>>

\* the Os each way of making a builder is to give
SeededOs(via) ==
    CASE via = "windows" -> {"Windows"}
      [] via = "macos_intel" -> {"MacOSIntel"}
      [] via = "macos_arm" -> {"MacOSArm"}
      [] via = "linux" -> {"Linux"}
      [] via = "default" -> {"Windows"}
      [] OTHER -> OsSet

RECURSIVE ParseDec(_)
ParseDec(ds) ==
    IF ds = <<>> THEN 0
    ELSE 10 * ParseDec(SubSeq(ds, 1, Len(ds) - 1))
            + (CHOOSE d \in 0..9 : Digits[d + 1] = ds[Len(ds)])

\* a sequence of characters is a decimal number
IsDecimal(ds) ==
    /\ ds # <<>>
    /\ \A i \in 1..Len(ds) : \E d \in 0..9 : Digits[d + 1] = ds[i]

C19_AppleGpuOnlyOnMac ==
    \A i \in 1..Len(pf.scripts) :
        (\E g \in {"AppleM1Pro", "AppleM2Max", "AppleM4Max"} :
                \/ pf.scripts[i].webglVendor = Vendor(g)
                \/ pf.scripts[i].webglRenderer = Renderer(g))
            => pf.scripts[i].platform = "MacIntel"

NotSpace(c) == c # " "

\* the first place of the character c in src, 0 when it has none
Place(src, c) ==
    IF \E k \in 1..Len(src) : src[k] = c
    THEN CHOOSE k \in 1..Len(src) : src[k] = c /\ \A m \in 1..(k - 1) : src[m] # c
    ELSE 0

\* the number a getter returns whose body is a number, or a sum of two
JsValue(src) ==
    LET k == Place(src, "+")
    IN  IF k = 0 THEN ParseDec(SelectSeq(src, NotSpace))
        ELSE ParseDec(SelectSeq(SubSeq(src, 1, k - 1), NotSpace))
                + ParseDec(SelectSeq(SubSeq(src, k + 1, Len(src)), NotSpace))

\* C20: the geometry of every script is the profile's: screen.width,
\* screen.availWidth and outerWidth are screen_width; screen.height,
\* screen.availHeight and outerHeight are screen_height; and these are the
\* window size and the --window-size argument configure_browser sets.
C20_GeometryIsTheProfiles ==
    /\ \A i \in 1..Len(pf.scripts) :
        LET s == pf.scripts[i]
        IN  /\ JsValue(s.screenWidth) = pf.p.screen_width
            /\ JsValue(s.availWidth) = pf.p.screen_width
            /\ JsValue(s.outerWidth) = pf.p.screen_width
            /\ JsValue(s.screenHeight) = pf.p.screen_height
            /\ JsValue(s.availHeight) = pf.p.screen_height
            /\ JsValue(s.outerHeight) = pf.p.screen_height
    /\ \A i \in 1..Len(pf.configs) :
        LET c == pf.configs[i]
        IN  /\ c.window_size = <<pf.p.screen_width, pf.p.screen_height>>
            /\ c.args[Len(c.args)]
                    = <<"--window-size=">> \o FormatDec(pf.p.screen_width)
                        \o <<",">> \o FormatDec(pf.p.screen_height)

\* ---- C21 ----
\* The architecture Chrome reports in its client hints on a machine of the
\* Os: Apple Silicon is "arm", the others are "x86"
ArchitectureOf(os) == IF os = "MacOSArm" THEN "arm" ELSE "x86"

\* "10.0.0" is the platformVersion of Windows 10
WindowsPlatformVersion == "10.0.0"

IsChromeBrand(b) == b.brand \in {"Google Chrome", "Chromium"}

\* C21: in every script a profile emits, the client-hints object, its
\* toJSON and its high-entropy variant carry the profile's chrome_version in
\* every Chrome/Chromium brand and in uaFullVersion, carry
\* os.hints_platform() as platform, and the high-entropy architecture and
\* platformVersion are those of the profile's Os, not of one fixed Os.
C21_ClientHintsMatchProfile ==
    \A i \in 1..Len(pf.scripts) :
        LET d == pf.scripts[i].userAgentData
            h == d.getHighEntropyValues
            ver == FormatDec(pf.p.chrome_version)
            full == ver \o <<".", "0", ".", "0", ".", "0">>
        IN  /\ \A k \in 1..Len(d.brands) :
                IsChromeBrand(d.brands[k]) => d.brands[k].version = ver
            /\ \A k \in 1..Len(d.toJSON.brands) :
                IsChromeBrand(d.toJSON.brands[k])
                    => d.toJSON.brands[k].version = ver
            /\ \A k \in 1..Len(h.brands) :
                IsChromeBrand(h.brands[k]) => h.brands[k].version = ver
            /\ \A k \in 1..Len(h.fullVersionList) :
                IsChromeBrand(h.fullVersionList[k])
                    => h.fullVersionList[k].version = full
            /\ h.uaFullVersion = full
            /\ d.platform = HintsPlatform(pf.p.os)
            /\ d.toJSON.platform = HintsPlatform(pf.p.os)
            /\ h.platform = HintsPlatform(pf.p.os)
            /\ h.architecture = ArchitectureOf(pf.p.os)
            /\ h.platformVersion = WindowsPlatformVersion
                    => pf.p.os = "Windows"

\* the parts of C21 about the version and the platform hold in every script
C21_VersionAndPlatformPart ==
    \A i \in 1..Len(pf.scripts) :
        LET d == pf.scripts[i].userAgentData
            h == d.getHighEntropyValues
            ver == FormatDec(pf.p.chrome_version)
        IN  /\ d.brands[1].version = ver /\ d.brands[2].version = ver
            /\ h.brands[1].version = ver /\ h.brands[2].version = ver
            /\ h.uaFullVersion = ver \o <<".", "0", ".", "0", ".", "0">>
            /\ d.platform = HintsPlatform(pf.p.os)
            /\ h.platform = HintsPlatform(pf.p.os)

\* ---- C22 ----
\* the requests of the call task t is in, or has last made, follow the
\* order of evaluate_stealth: the main frame, one isolated world for that
\* frame, one evaluation in the context that world's creation returned
EvalOrder(t) ==
    LET log == sent[t]
    IN  /\ Len(log) <= 3
        /\ Len(log) >= 1 => log[1].m = MainFrame
        /\ Len(log) >= 2 =>
            /\ log[1].st = "ok"
            /\ log[2].m = CreateIsolatedWorld
            /\ log[2].n = log[1].ret
        /\ Len(log) = 3 =>
            /\ log[2].st = "ok"
            /\ log[3].m = RuntimeEvaluate
            /\ log[3].n = log[2].ret

\* C22: every evaluate_stealth call issues, in this order, one main-frame
\* lookup, exactly one createIsolatedWorld for that frame and exactly one
\* evaluate whose context id is the id that same call's createIsolatedWorld
\* returned; the id is never one another call created, also when two calls
\* run concurrently, a failed createIsolatedWorld is followed by no
\* evaluate, and a call that returns a value has issued all three.
C22_OwnContextPerCall ==
    \A t \in Tasks :
        op[t] = "evaluate_stealth" =>
            /\ EvalOrder(t)
            /\ \A u \in Tasks \ {t} :
                (Len(sent[t]) = 3 /\ Len(sent[u]) >= 2
                    /\ sent[u][2].m = CreateIsolatedWorld /\ sent[u][2].st = "ok")
                    => sent[t][3].n # sent[u][2].ret
            /\ (Returned(t, "evaluate_stealth") /\ result[t].kind = "Ok")
                    => Len(sent[t]) = 3
            /\ (pc[t] = "idle" /\ Len(sent[t]) = 2) => sent[t][2].st = "err"

\* two calls are in flight together, each with its evaluate issued, and the
\* world of task 1 was created second
C22_Witness ==
    /\ pc[1] = "ev_eval_resp" /\ pc[2] = "ev_eval_wait"
    /\ sent[1][3].n = 2 /\ sent[2][3].n = 1
    /\ C22_OwnContextPerCall

\* ---- C23 ----
BuilderFields == DOMAIN NoBuilder

\* the step leaves every field of the builder but those of own as it was
OnlyChanges(own) == \A f \in BuilderFields \ own : pf'.b[f] = pf.b[f]

\* what a step of each setter does to the builder
SettersFrame ==
    /\ \A v \in ChromeVersions : Setter(SetChromeVersion(pf.b, v)) =>
            pf'.b.chrome_version = v /\ OnlyChanges({"chrome_version"})
    /\ \A g \in Gpus : Setter(SetGpu(pf.b, g)) =>
            pf'.b.gpu = g /\ OnlyChanges({"gpu"})
    /\ \A gb \in MemorySizes : Setter(SetMemoryGb(pf.b, gb)) =>
            pf'.b.memory_gb = gb /\ OnlyChanges({"memory_gb"})
    /\ \A c \in CoreCounts : Setter(SetCpuCores(pf.b, c)) =>
            pf'.b.cpu_cores = c /\ OnlyChanges({"cpu_cores"})
    /\ \A l \in Locales : Setter(SetLocale(pf.b, l)) =>
            pf'.b.locale = l /\ OnlyChanges({"locale"})
    /\ \A z \in Timezones : Setter(SetTimezone(pf.b, z)) =>
            pf'.b.timezone = z /\ OnlyChanges({"timezone"})
    /\ \A wh \in Screens : Setter(SetScreen(pf.b, wh[1], wh[2])) =>
            /\ pf'.b.screen_width = wh[1] /\ pf'.b.screen_height = wh[2]
            /\ OnlyChanges({"screen_width", "screen_height"})
    /\ \A d \in PixelRatios : Setter(SetDevicePixelRatio(pf.b, d)) =>
            pf'.b.device_pixel_ratio = d /\ OnlyChanges({"device_pixel_ratio"})

\* C23: each builder setter changes only its own field(s), to the value of
\* the call (so the last call for a field wins); the Os chosen at creation
\* never changes; build() always returns, and the profile's ten fields are
\* the builder's, 0 cores and 0 memory included.
C23_SettersChangeOwnFieldOnly ==
    /\ [](pf.st = "built" =>
            /\ DOMAIN pf.p = BuilderFields /\ Cardinality(BuilderFields) = 10
            /\ \A f \in BuilderFields : pf.p[f] = pf.b[f])
    /\ [][/\ SettersFrame
          /\ pf.st = "builder" => pf'.b.os = pf.b.os
          /\ pf.st = "builder" => ENABLED BuilderBuild
          /\ BuilderBuild => pf'.st = "built" /\ pf'.b = pf.b]_vars

\* build() has returned a profile of a builder on which cpu_cores(0) and
\* then memory_gb(0) were called
C23_Witness ==
    /\ pf.st = "built" /\ pf.n = 2
    /\ pf.p.cpu_cores = 0 /\ pf.p.memory_gb = 0
    /\ pf.p.os = "MacOSArm" /\ pf.p.gpu = OsGpu("MacOSArm")

\* ---- C24 ----
\* the call of task t was cancelled, and this is the state it left
Cancelled(t) == pc[t] = "idle" /\ result[t].kind = "Cancelled"

\* C24: when a move_mouse_human call is cancelled at one of its suspension
\* points, the session's position is the last pointer-move point the page
\* handled (the position before the call when it handled none): the stored
\* position neither lags behind nor runs ahead of what the page received.
C24_CancelledMoveLeavesDeliveredPoint ==
    \A t \in Tasks : Cancelled(t) => mouse_pos = LastOkPoint(t)

\* cancelled during an inter-point delay, the position is the delivered point
C24_CancelledInDelayPart ==
    [][\A t \in Tasks :
        (pc[t] = "mv_sleep" /\ Cancelled(t)') => mouse_pos' = LastOkPoint(t)']_vars

\* ---- C25 ----
\* task t is in a call
InCall(t) == pc[t] # "idle"

\* C25: no guard of the mouse position's lock is alive at a suspension
\* point (a dispatch round-trip or a delay), so with concurrent move, click
\* and scroll callers on one session no caller is ever stuck in its call
\* (no deadlock): every call finishes when every dispatch is answered and
\* every task that can go on is polled.
C25_LockNeverHeldCallsFinish ==
    /\ [](lock = 0)
    /\ \A t \in Tasks : InCall(t) ~> ~InCall(t)

\* a move and a scroll are in their calls together, each past its first
\* dispatch, after both have locked the position
C25_Witness ==
    /\ pc[1] = "mv_sleep" /\ loc[1].idx > 1
    /\ pc[2] = "sc_sleep" /\ op[2] = "scroll_human"
    /\ lock = 0

\* ---- C26 ----
\* the operations that never write the position
ReadOnlyOps == {"click", "type_text", "type_text_with_delay",
                "type_text_with_typos", "press_key", "press_enter",
                "press_tab", "scroll_human", "evaluate_stealth"}

\* task t takes a step of its call, or starts or ends one
Steps(t) == pc'[t] # pc[t]

\* C26: the session's position starts at (0, 0) and is written only by
\* move_mouse_human (also when click_human calls it), with a point whose
\* pointer-move was dispatched successfully; click, the typing operations,
\* press_key, press_enter, press_tab, scroll_human and evaluate_stealth leave
\* it unchanged in every step, whether they succeed or fail.
C26_OnlyMoveWritesPosition ==
    /\ mouse_pos = Origin
    /\ [][/\ mouse_pos' # mouse_pos =>
                \E t \in Tasks :
                    /\ op[t] \in {"move_mouse_human", "click_human"}
                    /\ pc[t] = "mv_resp" /\ pc'[t] = "mv_sleep"
                    /\ LastEntry(t).ty = "mouseMoved"
                    /\ LastEntry(t).st = "ok"
                    /\ mouse_pos' = PointOf(LastEntry(t))
          /\ \A t \in Tasks :
                (Steps(t) /\ op'[t] \in ReadOnlyOps) => mouse_pos' = mouse_pos
         ]_vars

\* after a move has left the position away from (0, 0), a scroll has failed
\* and the position is as the move left it
C26_Witness ==
    \E t \in Tasks :
        /\ Returned(t, "scroll_human") /\ result[t].kind = "Err"
        /\ mouse_pos # Origin
        /\ budget[t] = MaxCalls - 2

\* ---- C27 ----
ScrollPcs == {"sc_wait", "sc_resp", "sc_sleep"}

\* task t starts a scroll_human in this step
StartsScroll(t) == pc[t] = "idle" /\ op'[t] = "scroll_human" /\ Steps(t)

\* C27: scroll_human reads the position once, when it starts, and every
\* wheel event of the call carries those coordinates, also when a concurrent
\* move_mouse_human changes the session's position while the scroll is in
\* progress.
C27_WheelEventsAtStartPosition ==
    /\ [](\A t \in Tasks :
            op[t] = "scroll_human" =>
                \A i \in WheelEvents(t) : PointOf(Entry(t, i)) = loc[t].pos)
    /\ [][\A t \in Tasks :
            /\ StartsScroll(t) => loc'[t].pos = mouse_pos
            /\ (op[t] = "scroll_human" /\ pc[t] \in ScrollPcs)
                    => loc'[t].pos = loc[t].pos]_vars

\* a scroll is at its second wheel event or later while a move that started
\* before it has taken the position away from where the scroll read it
C27_Witness ==
    \E t \in Tasks, u \in Tasks :
        /\ op[t] = "scroll_human" /\ pc[t] = "sc_wait"
        /\ Cardinality(WheelEvents(t)) >= 2
        /\ pc[u] \in MovePcs
        /\ loc[t].pos # Origin
        /\ mouse_pos # loc[t].pos
        /\ PointOf(LastEntry(t)) = loc[t].pos

=============================================================================
